---- MODULE Spec2Model ----
(***************************************************************************)
(* A model of the PNR converter's parsing and normalisation engine         *)
(* (src/src/main.ts): text normalisation, month and date resolution,       *)
(* locale number and money parsing, the RAW and markup segment extractors, *)
(* the itinerary reconciler and the convert pipeline.                      *)
(*                                                                         *)
(* Strings are sequences of characters; a character is a TLA+ string (one  *)
(* letter, or a symbolic name such as "NBSP" or "LF" for a character that  *)
(* has no printable form).  An optional value is a sequence of length 0    *)
(* (undefined) or 1.                                                       *)
(***************************************************************************)
EXTENDS Integers, Sequences, FiniteSets, TLC

VARIABLES
    call,         \* the helper evaluated last: [fn, arg, ret]
    pc,           \* position of the convert pipeline
    input,        \* textarea.value together with the document DOMParser builds from it
    isHtml,       \* convert: the classification of the input
    segments,     \* the Segment[] under construction / of the last result
    meta,         \* PnrMeta of the run
    currentYear,  \* what new Date().getFullYear() returns
    year,         \* applyDatesAndTransit: running year
    lastMonth,    \* applyDatesAndTransit: month of the last resolved departure
    cursor        \* applyDatesAndTransit: index of the segment processed next

vars == <<call, pc, input, isHtml, segments, meta, currentYear, year, lastMonth, cursor>>

pipelineVars == <<pc, input, isHtml, segments, meta, currentYear, year, lastMonth, cursor>>

(***************************************************************************)
(* Optional values                                                         *)
(***************************************************************************)
undefined == <<>>

Some(v) == <<v>>

IsDefined(o) == o # <<>>

Get(o) == o[1]

(***************************************************************************)
(* Characters                                                              *)
(***************************************************************************)
SP == " "

LowerAZ == <<"a", "b", "c", "d", "e", "f", "g", "h", "i", "j", "k", "l", "m", "n", "o", "p", "q", "r", "s", "t", "u", "v", "w", "x", "y", "z">>

UpperAZ == <<"A", "B", "C", "D", "E", "F", "G", "H", "I", "J", "K", "L", "M", "N", "O", "P", "Q", "R", "S", "T", "U", "V", "W", "X", "Y", "Z">>

DigitChars == <<"0", "1", "2", "3", "4", "5", "6", "7", "8", "9">>

\* accented letters of the date pattern's month class, lower then upper
LowerAccented == <<"á", "é", "í", "ó", "ú", "ü", "ñ">>

UpperAccented == <<"Á", "É", "Í", "Ó", "Ú", "Ü", "Ñ">>

\* the base letter of each accented upper-case letter under NFD
BaseOfAccented == <<"A", "E", "I", "O", "U", "U", "N">>

\* the combining mark NFD splits off each of them
MarkOfAccented == <<"ACUTE", "ACUTE", "ACUTE", "ACUTE", "ACUTE", "DIAERESIS", "TILDE">>

Range(s) == {s[i] : i \in DOMAIN s}

IndexOf(c, s) == IF \E i \in DOMAIN s : s[i] = c
                 THEN CHOOSE i \in DOMAIN s : s[i] = c
                 ELSE 0

DigitSet == Range(DigitChars)

UpperSet == Range(UpperAZ)

LowerSet == Range(LowerAZ)

UpperAccentedSet == Range(UpperAccented)

LowerAccentedSet == Range(LowerAccented)

IsDigit(c) == c \in DigitSet

IsUpper(c) == c \in UpperSet

IsLower(c) == c \in LowerSet

\* [A-Za-z]
IsAsciiLetter(c) == IsUpper(c) \/ IsLower(c)

\* \w
IsWordChar(c) == IsAsciiLetter(c) \/ IsDigit(c) \/ c = "_"

\* \s (the white space the model's inputs use; U+00A0 is JavaScript white space too)
IsSpace(c) == c \in {SP, "TAB", "LF", "CR", "NBSP"}

\* \p{Diacritic}: the combining marks NFD yields here
IsDiacritic(c) == c \in {"ACUTE", "DIAERESIS", "TILDE"}

\* String.prototype.toUpperCase on one character
ToUpperChar(c) ==
    IF IsLower(c) THEN UpperAZ[IndexOf(c, LowerAZ)]
    ELSE IF c \in LowerAccentedSet THEN UpperAccented[IndexOf(c, LowerAccented)]
    ELSE c

\* String.prototype.toLowerCase on one character
ToLowerChar(c) ==
    IF IsUpper(c) THEN LowerAZ[IndexOf(c, UpperAZ)]
    ELSE IF c \in UpperAccentedSet THEN LowerAccented[IndexOf(c, UpperAccented)]
    ELSE c

\* String.prototype.normalize("NFD") on one character
NFDChar(c) ==
    IF c \in UpperAccentedSet
    THEN <<BaseOfAccented[IndexOf(c, UpperAccented)], MarkOfAccented[IndexOf(c, UpperAccented)]>>
    ELSE IF c \in LowerAccentedSet
    THEN <<ToLowerChar(BaseOfAccented[IndexOf(c, LowerAccented)]),
           MarkOfAccented[IndexOf(c, LowerAccented)]>>
    ELSE <<c>>

(***************************************************************************)
(* Strings                                                                 *)
(***************************************************************************)
RECURSIVE Flatten(_)
Flatten(ss) == IF ss = <<>> THEN <<>> ELSE Head(ss) \o Flatten(Tail(ss))

\* Array.prototype.map
MapSeq(F(_), s) == [i \in DOMAIN s |-> F(s[i])]

\* a string, character by character
MapChars(F(_), s) == MapSeq(F, s)

Slice(s, from, to) == IF from > to THEN <<>> ELSE SubSeq(s, from, to)

\* String.prototype.slice(a, b) with 0 <= a, b
JsSlice(s, a, b) ==
    LET lo == IF a > Len(s) THEN Len(s) ELSE a
        hi == IF b > Len(s) THEN Len(s) ELSE b
    IN  Slice(s, lo + 1, hi)

\* String.prototype.includes / indexOf of a substring: the first index (1-based), 0 if none
FirstIndexOfSub(sub, s) ==
    LET hits == {i \in 1..(Len(s) - Len(sub) + 1) : SubSeq(s, i, i + Len(sub) - 1) = sub}
    IN  IF hits = {} THEN 0 ELSE CHOOSE i \in hits : \A j \in hits : i <= j

Includes(s, sub) == FirstIndexOfSub(sub, s) # 0

StartsWith(s, sub) == Len(s) >= Len(sub) /\ SubSeq(s, 1, Len(sub)) = sub

\* String.prototype.lastIndexOf of a character: 1-based, 0 if none
LastIndexOfChar(c, s) ==
    LET hits == {i \in DOMAIN s : s[i] = c}
    IN  IF hits = {} THEN 0 ELSE CHOOSE i \in hits : \A j \in hits : i >= j

\* String.prototype.replace(c, d) with a string pattern: the first occurrence only
ReplaceFirstChar(s, c, d) ==
    LET i == IndexOf(c, s)
    IN  IF i = 0 THEN s ELSE [s EXCEPT ![i] = d]

\* String.prototype.replace(/c/g, "")
RemoveChar(s, c) == SelectSeq(s, LAMBDA x : x # c)

\* String.prototype.trim
RECURSIVE TrimLeft(_)
TrimLeft(s) == IF s # <<>> /\ IsSpace(Head(s)) THEN TrimLeft(Tail(s)) ELSE s

RECURSIVE TrimRight(_)
TrimRight(s) == IF s # <<>> /\ IsSpace(s[Len(s)]) THEN TrimRight(SubSeq(s, 1, Len(s) - 1)) ELSE s

Trim(s) == TrimRight(TrimLeft(s))

\* replace(/\s+/g, " ")
RECURSIVE CollapseSpaces(_)
CollapseSpaces(s) ==
    IF s = <<>> THEN <<>>
    ELSE IF IsSpace(Head(s)) THEN <<SP>> \o CollapseSpaces(TrimLeft(s))
    ELSE <<Head(s)>> \o CollapseSpaces(Tail(s))

\* clean(s): NBSP to space, runs of white space to one space, trimmed
clean(s) == Trim(CollapseSpaces(MapChars(LAMBDA c : IF c = "NBSP" THEN SP ELSE c, s)))

\* String.prototype.split on the characters of a set
RECURSIVE SplitOn(_, _)
SplitOn(s, sepChars) ==
    LET seps == {i \in DOMAIN s : s[i] \in sepChars}
    IN  IF seps = {} THEN <<s>>
        ELSE LET i == CHOOSE x \in seps : \A y \in seps : x <= y
             IN  <<SubSeq(s, 1, i - 1)>> \o SplitOn(SubSeq(s, i + 1, Len(s)), sepChars)

\* split(/\s+/) of a cleaned string: its words
Words(s) == SelectSeq(SplitOn(s, {SP}), LAMBDA w : w # <<>>)

\* normToken(s): trim, upper-case, NFD, strip the diacritics
normToken(s) ==
    SelectSeq(Flatten(MapChars(NFDChar, MapChars(ToUpperChar, Trim(s)))),
              LAMBDA c : ~IsDiacritic(c))

(***************************************************************************)
(* Month parsing                                                           *)
(***************************************************************************)
\* the keys of each table, in the order of their values 0..11
MONTHS_EN_3 ==
    <<<<"J", "A", "N">>, <<"F", "E", "B">>, <<"M", "A", "R">>, <<"A", "P", "R">>, <<"M", "A", "Y">>, <<"J", "U", "N">>,
      <<"J", "U", "L">>, <<"A", "U", "G">>, <<"S", "E", "P">>, <<"O", "C", "T">>, <<"N", "O", "V">>, <<"D", "E", "C">>>>

MONTHS_ES_3 ==
    <<<<"E", "N", "E">>, <<"F", "E", "B">>, <<"M", "A", "R">>, <<"A", "B", "R">>, <<"M", "A", "Y">>, <<"J", "U", "N">>,
      <<"J", "U", "L">>, <<"A", "G", "O">>, <<"S", "E", "P">>, <<"O", "C", "T">>, <<"N", "O", "V">>, <<"D", "I", "C">>>>

MONTHS_ES_FULL ==
    <<<<"E", "N", "E", "R", "O">>, <<"F", "E", "B", "R", "E", "R", "O">>, <<"M", "A", "R", "Z", "O">>, <<"A", "B", "R", "I", "L">>, <<"M", "A", "Y", "O">>, <<"J", "U", "N", "I", "O">>,
      <<"J", "U", "L", "I", "O">>, <<"A", "G", "O", "S", "T", "O">>, <<"S", "E", "P", "T", "I", "E", "M", "B", "R", "E">>, <<"O", "C", "T", "U", "B", "R", "E">>, <<"N", "O", "V", "I", "E", "M", "B", "R", "E">>, <<"D", "I", "C", "I", "E", "M", "B", "R", "E">>>>

\* k in table
InTable(k, table) == \E i \in DOMAIN table : table[i] = k

\* table[k], for k in table
TableValue(k, table) == (CHOOSE i \in DOMAIN table : table[i] = k) - 1

\* monthFromToken with January as the month of a token it does not know
MonthFromTokenWithDefault(token) ==
    LET k  == normToken(token)
        k3 == JsSlice(k, 0, 3)
    IN  IF k = <<>> THEN undefined
        ELSE IF InTable(k, MONTHS_ES_FULL) THEN Some(TableValue(k, MONTHS_ES_FULL))
        ELSE IF InTable(k3, MONTHS_ES_3) THEN Some(TableValue(k3, MONTHS_ES_3))
        ELSE IF InTable(k3, MONTHS_EN_3) THEN Some(TableValue(k3, MONTHS_EN_3))
        ELSE Some(0)

monthFromToken(token) ==
    LET k  == normToken(token)
        k3 == JsSlice(k, 0, 3)
    IN  IF k = <<>> THEN undefined
        ELSE IF InTable(k, MONTHS_ES_FULL) THEN Some(TableValue(k, MONTHS_ES_FULL))
        ELSE IF InTable(k3, MONTHS_ES_3) THEN Some(TableValue(k3, MONTHS_ES_3))
        ELSE IF InTable(k3, MONTHS_EN_3) THEN Some(TableValue(k3, MONTHS_EN_3))
        ELSE undefined

(***************************************************************************)
(* Date: a local wall-clock instant, counted in minutes from 1 January     *)
(* 2000, 00:00.  The converter builds every Date with zero seconds and     *)
(* milliseconds and only ever adds whole minutes.  The local zone is       *)
(* taken to have no daylight-saving transition, so that getTime() and the  *)
(* wall clock advance together.                                            *)
(***************************************************************************)
MinutesPerDay == 24 * 60

IsLeap(y) == (y % 4 = 0 /\ y % 100 # 0) \/ y % 400 = 0

\* days from 1 January of year 1 to 1 January of year y
DaysBeforeYear(y) == 365 * (y - 1) + ((y - 1) \div 4) - ((y - 1) \div 100) + ((y - 1) \div 400)

\* the day the minutes of a Date are counted from: 1 January 2000
EpochDay == DaysBeforeYear(2000)

DaysInMonth(y, m) ==
    IF m = 1 THEN (IF IsLeap(y) THEN 29 ELSE 28)
    ELSE IF m \in {3, 5, 8, 10} THEN 30
    ELSE 31

RECURSIVE DaysBeforeMonth(_, _)
DaysBeforeMonth(y, m) == IF m = 0 THEN 0 ELSE DaysBeforeMonth(y, m - 1) + DaysInMonth(y, m - 1)

\* new Date(y, mon, day, hh, mm, 0, 0) with mon in 0..11: day, hours and minutes
\* out of their range carry over, as MakeDay and MakeTime do
MakeDate(y, mon, day, hh, mm) ==
    (DaysBeforeYear(y) - EpochDay + DaysBeforeMonth(y, mon) + day - 1)
        * MinutesPerDay + hh * 60 + mm

\* Date.prototype.getFullYear
GetFullYear(t) ==
    LET d  == (t \div MinutesPerDay) + EpochDay
        y0 == 1 + ((400 * d) \div 146097)
    IN  CHOOSE y \in (y0 - 1)..(y0 + 1) : DaysBeforeYear(y) <= d /\ d < DaysBeforeYear(y + 1)

\* Date.prototype.getMonth
GetMonth(t) ==
    LET y   == GetFullYear(t)
        doy == (t \div MinutesPerDay) + EpochDay - DaysBeforeYear(y)
    IN  CHOOSE m \in 0..11 :
            DaysBeforeMonth(y, m) <= doy /\ doy < DaysBeforeMonth(y, m) + DaysInMonth(y, m)

\* Date.prototype.getDate
GetDate(t) ==
    LET y   == GetFullYear(t)
        doy == (t \div MinutesPerDay) + EpochDay - DaysBeforeYear(y)
    IN  doy - DaysBeforeMonth(y, GetMonth(t)) + 1

\* minutes since midnight: getHours() * 60 + getMinutes()
GetMinuteOfDay(t) == t % MinutesPerDay

\* Number(s) of a string of decimal digits
RECURSIVE DigitsToNat(_)
DigitsToNat(s) ==
    IF s = <<>> THEN 0
    ELSE 10 * DigitsToNat(SubSeq(s, 1, Len(s) - 1)) + (IndexOf(s[Len(s)], DigitChars) - 1)

AllDigits(s) == \A i \in DOMAIN s : IsDigit(s[i])

\* [A-Za-zÁÉÍÓÚÜÑáéíóúüñ]
IsMonthLetter(c) == IsAsciiLetter(c) \/ c \in UpperAccentedSet \/ c \in LowerAccentedSet

\* (\d{1,2}) between the start or white space and white space
IsDayWord(w) == Len(w) \in 1..2 /\ AllDigits(w)

\* ([A-Za-z...]{3,}) between white space
IsMonthWord(w) == Len(w) >= 3 /\ \A i \in DOMAIN w : IsMonthLetter(w[i])

\* the length of the match of \d{1,2}:\d{2} at the start of w, 0 if there is none
TimePrefixLen(w) ==
    IF Len(w) >= 5 /\ IsDigit(w[1]) /\ IsDigit(w[2]) /\ w[3] = ":" /\ IsDigit(w[4]) /\ IsDigit(w[5])
    THEN 5
    ELSE IF Len(w) >= 4 /\ IsDigit(w[1]) /\ w[2] = ":" /\ IsDigit(w[3]) /\ IsDigit(w[4])
    THEN 4
    ELSE 0

\* the leftmost match of
\*   /(?:^|\s)(\d{1,2})\s+([A-Za-z...]{3,})\s+(\d{1,2}:\d{2})/
\* in a cleaned text, as the index of the day word among its words; 0 if none.
\* In a cleaned text every \s+ is one space, so the groups are whole words but
\* for the time, which is a prefix of its word.
DatePatternAt(ws) ==
    LET hits == {i \in 1..(Len(ws) - 2) :
                    IsDayWord(ws[i]) /\ IsMonthWord(ws[i + 1]) /\ TimePrefixLen(ws[i + 2]) > 0}
    IN  IF hits = {} THEN 0 ELSE CHOOSE i \in hits : \A j \in hits : i <= j

\* the Date of a match with the month counted from 1
DateOfMatchMonthFromOne(baseYear, day, mon, hhmm) ==
    IF mon = undefined THEN undefined
    ELSE Some(MakeDate(baseYear, Get(mon) + 1, DigitsToNat(day),
                       DigitsToNat(hhmm[1]), DigitsToNat(hhmm[2])))

\* the Date of a match: day and time are the digits matched, mon is what
\* monthFromToken made of the month word
DateOfMatch(baseYear, day, mon, hhmm) ==
    IF mon = undefined THEN undefined
    ELSE Some(MakeDate(baseYear, Get(mon), DigitsToNat(day),
                       DigitsToNat(hhmm[1]), DigitsToNat(hhmm[2])))

\* the Date of the match whose day word is word i of ws; no Date without a match
DateOfWords(ws, i, baseYear) ==
    IF i = 0 THEN undefined
    ELSE DateOfMatch(baseYear, ws[i], monthFromToken(ws[i + 1]),
                     SplitOn(SubSeq(ws[i + 2], 1, TimePrefixLen(ws[i + 2])), {":"}))

parseDateTextLoose(text, baseYear) ==
    DateOfWords(Words(clean(text)), DatePatternAt(Words(clean(text))), baseYear)

(***************************************************************************)
(* Numbers: a JavaScript number that is a non-negative decimal fraction is *)
(* the fraction num/den in lowest terms; NaN is the record with den = 0.   *)
(* Arithmetic is exact: the rounding error of binary floating point is not *)
(* modelled.                                                               *)
(***************************************************************************)
NaN == [num |-> 0, den |-> 0]

IsNaN(n) == n.den = 0

RECURSIVE GCD(_, _)
GCD(a, b) == IF b = 0 THEN a ELSE GCD(b, a % b)

Fraction(num, den) == LET g == GCD(num, den) IN [num |-> num \div g, den |-> den \div g]

RECURSIVE Pow10(_)
Pow10(k) == IF k = 0 THEN 1 ELSE 10 * Pow10(k - 1)

\* a / n for a number a and an integer n > 0
DividedBy(a, n) == IF IsNaN(a) THEN NaN ELSE Fraction(a.num, a.den * n)

\* !n for a number: true of 0 and of NaN
IsFalsyNumber(n) == IsNaN(n) \/ n.num = 0

CountChar(c, s) == Cardinality({i \in DOMAIN s : s[i] = c})

\* Number(s) for a string of digits, "." and ",": the empty string is 0, a
\* string with a comma, with two dots or with no digit is NaN
StringToNumber(s) ==
    IF s = <<>> THEN Fraction(0, 1)
    ELSE IF \E i \in DOMAIN s : ~(IsDigit(s[i]) \/ s[i] = ".") THEN NaN
    ELSE IF CountChar(".", s) > 1 \/ s = <<".">> THEN NaN
    ELSE IF CountChar(".", s) = 0 THEN Fraction(DigitsToNat(s), 1)
    ELSE LET dot  == IndexOf(".", s)
             frac == SubSeq(s, dot + 1, Len(s))
         IN  Fraction(DigitsToNat(SubSeq(s, 1, dot - 1) \o frac), Pow10(Len(frac)))

\* raw.match(/<sep>\d{1,2}$/)
EndsWithSepAndDigits(raw, sep) ==
    LET n == Len(raw)
    IN  \/ n >= 2 /\ raw[n - 1] = sep /\ IsDigit(raw[n])
        \/ n >= 3 /\ raw[n - 2] = sep /\ IsDigit(raw[n - 1]) /\ IsDigit(raw[n])

\* parseLocaleNumber with indexOf in the place of lastIndexOf
ParseLocaleNumberFirstWins(s) ==
    LET raw == clean(s)
        hasComma == "," \in Range(raw)
        hasDot   == "." \in Range(raw)
        norm ==
            IF hasComma /\ hasDot
            THEN IF IndexOf(",", raw) > IndexOf(".", raw)
                 THEN ReplaceFirstChar(RemoveChar(raw, "."), ",", ".")
                 ELSE RemoveChar(raw, ",")
            ELSE IF hasComma /\ ~hasDot
            THEN IF EndsWithSepAndDigits(raw, ",")
                 THEN ReplaceFirstChar(raw, ",", ".")
                 ELSE RemoveChar(raw, ",")
            ELSE IF EndsWithSepAndDigits(raw, ".") THEN raw ELSE RemoveChar(raw, ".")
    IN  IF raw = <<>> THEN NaN ELSE StringToNumber(norm)

\* parseLocaleNumber without the test of the final group: a lone kind of
\* separator is always the decimal point
ParseLocaleNumberAnyGroup(s) ==
    LET raw == clean(s)
        hasComma == "," \in Range(raw)
        hasDot   == "." \in Range(raw)
        norm ==
            IF hasComma /\ hasDot
            THEN IF LastIndexOfChar(",", raw) > LastIndexOfChar(".", raw)
                 THEN ReplaceFirstChar(RemoveChar(raw, "."), ",", ".")
                 ELSE RemoveChar(raw, ",")
            ELSE IF hasComma /\ ~hasDot
            THEN ReplaceFirstChar(raw, ",", ".")
            ELSE raw
    IN  IF raw = <<>> THEN NaN ELSE StringToNumber(norm)

\* parseLocaleNumber with a lone dot always a thousands separator
ParseLocaleNumberDotsStripped(s) ==
    LET raw == clean(s)
        hasComma == "," \in Range(raw)
        hasDot   == "." \in Range(raw)
        norm ==
            IF hasComma /\ hasDot
            THEN IF LastIndexOfChar(",", raw) > LastIndexOfChar(".", raw)
                 THEN ReplaceFirstChar(RemoveChar(raw, "."), ",", ".")
                 ELSE RemoveChar(raw, ",")
            ELSE IF hasComma /\ ~hasDot
            THEN IF EndsWithSepAndDigits(raw, ",")
                 THEN ReplaceFirstChar(raw, ",", ".")
                 ELSE RemoveChar(raw, ",")
            ELSE RemoveChar(raw, ".")
    IN  IF raw = <<>> THEN NaN ELSE StringToNumber(norm)

parseLocaleNumber(s) ==
    LET raw == clean(s)
        hasComma == "," \in Range(raw)
        hasDot   == "." \in Range(raw)
        norm ==
            IF hasComma /\ hasDot
            THEN IF LastIndexOfChar(",", raw) > LastIndexOfChar(".", raw)
                 THEN ReplaceFirstChar(RemoveChar(raw, "."), ",", ".")
                 ELSE RemoveChar(raw, ",")
            ELSE IF hasComma /\ ~hasDot
            THEN IF EndsWithSepAndDigits(raw, ",")
                 THEN ReplaceFirstChar(raw, ",", ".")
                 ELSE RemoveChar(raw, ",")
            ELSE IF EndsWithSepAndDigits(raw, ".") THEN raw ELSE RemoveChar(raw, ".")
    IN  IF raw = <<>> THEN NaN ELSE StringToNumber(norm)

\* \b at the gap after position i of t (0 <= i <= Len(t))
WordBoundaryAfter(t, i) ==
    LET before == i >= 1 /\ IsWordChar(t[i])
        after  == i < Len(t) /\ IsWordChar(t[i + 1])
    IN  before # after

\* [0-9\.,]
IsAmountChar(c) == IsDigit(c) \/ c \in {".", ","}

\* the end of the longest run of characters of [0-9\.,] that starts at position i
RECURSIVE AmountRunEnd(_, _)
AmountRunEnd(t, i) ==
    IF i < Len(t) /\ IsAmountChar(t[i + 1]) THEN AmountRunEnd(t, i + 1) ELSE i

\* the match of /([A-Z]{3})\s*([0-9][0-9\.,]*)\b/ with its letters at p..p+2, in
\* a cleaned text: [from, to] of group 2, or <<>>.  The greedy group gives
\* back characters until \b holds after it.
MoneyTailAt(t, p) ==
    IF ~(p + 2 <= Len(t) /\ IsUpper(t[p]) /\ IsUpper(t[p + 1]) /\ IsUpper(t[p + 2]))
    THEN <<>>
    ELSE LET q == IF p + 3 <= Len(t) /\ IsSpace(t[p + 3]) THEN p + 4 ELSE p + 3
         IN  IF ~(q <= Len(t) /\ IsDigit(t[q])) THEN <<>>
             ELSE LET ends == {r \in q..AmountRunEnd(t, q) : WordBoundaryAfter(t, r)}
                  IN  IF ends = {} THEN <<>>
                      ELSE <<q, CHOOSE r \in ends : \A r2 \in ends : r >= r2>>

\* the leftmost match of /\b([A-Z]{3})\s*([0-9][0-9\.,]*)\b/: [p, from, to] or <<>>
MoneyMatch(t) ==
    LET starts == {p \in DOMAIN t : WordBoundaryAfter(t, p - 1) /\ MoneyTailAt(t, p) # <<>>}
    IN  IF starts = {} THEN <<>>
        ELSE LET p == CHOOSE x \in starts : \A y \in starts : x <= y
             IN  <<p>> \o MoneyTailAt(t, p)

\* { currency, amount }, or undefined when the amount is NaN
MoneyOf(currency, amount) ==
    IF IsNaN(amount) THEN undefined ELSE Some([currency |-> currency, amount |-> amount])

\* the money of a match m = [p, from, to] in t: group 1 upper-cased, group 2
\* through parseLocaleNumber; undefined without a match
MoneyOfMatch(t, m) ==
    IF m = <<>> THEN undefined
    ELSE MoneyOf(MapChars(ToUpperChar, SubSeq(t, m[1], m[1] + 2)),
                 parseLocaleNumber(SubSeq(t, m[2], m[3])))

parseMoneyRaw(s) == MoneyOfMatch(clean(s), MoneyMatch(clean(s)))

RECURSIVE NatToDigits(_)
NatToDigits(n) ==
    IF n < 10 THEN <<DigitChars[n + 1]>>
    ELSE NatToDigits(n \div 10) \o <<DigitChars[(n % 10) + 1]>>

\* the integer nearest to 100 n, the larger one of two: what toFixed(2) prints
ToCents(n) == (2 * 100 * n.num + n.den) \div (2 * n.den)

\* formatMoney(n): n.toFixed(2), for a number n >= 0 below 10^21
formatMoney(n) ==
    IF IsNaN(n) THEN <<"N", "a", "N">>
    ELSE LET cents == ToCents(n)
         IN  NatToDigits(cents \div 100) \o <<".">>
                 \o <<DigitChars[((cents \div 10) % 10) + 1], DigitChars[(cents % 10) + 1]>>

(***************************************************************************)
(* Fare parsing from HTML.  A document is the sequence of its table rows,  *)
(* a row the sequence of the textContent of its direct td children;        *)
(* doc.querySelectorAll("td") lists the cells row by row.                  *)
(***************************************************************************)
AllCells(rows) == Flatten(rows)

\* replace(/:$/, "")
DropFinalColon(s) == IF s # <<>> /\ s[Len(s)] = ":" THEN SubSeq(s, 1, Len(s) - 1) ELSE s

\* labelOf(s): clean, drop a final colon, lower-case, NFD, strip the diacritics
labelOf(s) ==
    SelectSeq(Flatten(MapChars(NFDChar, MapChars(ToLowerChar, DropFinalColon(clean(s))))),
              LAMBDA c : ~IsDiacritic(c))

FareLabels == {<<"f", "a", "r", "e">>, <<"t", "a", "r", "i", "f", "a">>}

TaxesLabels == {<<"t", "a", "x", "e", "s">>, <<"i", "m", "p", "u", "e", "s", "t", "o", "s">>}

TotalLabels == {<<"t", "o", "t", "a", "l">>}

\* Strategy A: the money of the last cell pair whose label is one of labels
\* ks are the labels of the cells and ms the money of their cleaned texts
LastPairedMoney(ks, ms, labels) ==
    LET hits == {i \in 1..(Len(ks) - 1) :
                    ks[i] # <<>> /\ ms[i + 1] # undefined /\ ks[i] \in labels}
    IN  IF hits = {} THEN undefined
        ELSE ms[(CHOOSE i \in hits : \A j \in hits : i >= j) + 1]

PairedMoney(tds, labels) ==
    LastPairedMoney(MapSeq(labelOf, tds),
                    MapSeq(LAMBDA td : parseMoneyRaw(clean(td)), tds),
                    labels)

\* \s* and [:\-]? in a cleaned text: at most one character each
SkipSpace(t, i) == IF i <= Len(t) /\ IsSpace(t[i]) THEN i + 1 ELSE i

SkipColonOrDash(t, i) == IF i <= Len(t) /\ t[i] \in {":", "-"} THEN i + 1 ELSE i

\* the match of /\b<label>\b\s*[:\-]?\s*([A-Z]{3})\s*([0-9][0-9\.,]*)/i with the
\* label at position p: <<first letter of group 1, first and last of group 2>>
InlineMoneyAt(t, p, label) ==
    LET n  == Len(label)
        i3 == SkipSpace(t, SkipColonOrDash(t, SkipSpace(t, p + n)))
        i4 == SkipSpace(t, i3 + 3)
    IN  IF /\ p + n - 1 <= Len(t)
           /\ MapChars(ToLowerChar, SubSeq(t, p, p + n - 1)) = label
           /\ WordBoundaryAfter(t, p - 1)
           /\ WordBoundaryAfter(t, p + n - 1)
           /\ i3 + 2 <= Len(t)
           /\ \A j \in i3..(i3 + 2) : IsAsciiLetter(t[j])
           /\ i4 <= Len(t)
           /\ IsDigit(t[i4])
        THEN <<i3, i4, AmountRunEnd(t, i4)>>
        ELSE <<>>

\* the leftmost match in t for the labels of one field
InlineMoneyMatch(t, labels) ==
    LET starts == {p \in DOMAIN t : \E l \in labels : InlineMoneyAt(t, p, l) # <<>>}
    IN  IF starts = {} THEN <<>>
        ELSE LET p == CHOOSE x \in starts : \A y \in starts : x <= y
             IN  InlineMoneyAt(t, p, CHOOSE l \in labels : InlineMoneyAt(t, p, l) # <<>>)

\* what Strategy B reads in one cell for one field: money or undefined
InlineMoneyOfCell(td, labels) == MoneyOfMatch(clean(td), InlineMoneyMatch(clean(td), labels))

\* the first defined member of a sequence of optional values
FirstDefined(os) ==
    LET hits == {i \in DOMAIN os : os[i] # undefined}
    IN  IF hits = {} THEN undefined ELSE os[CHOOSE i \in hits : \A j \in hits : i <= j]

\* Strategy B: the first cell, in document order, whose inline text parses
InlineMoney(tds, labels) == FirstDefined(MapSeq(LAMBDA td : InlineMoneyOfCell(td, labels), tds))

\* one field of the fare with Strategy B asked first
FareFieldInlineFirst(tds, labels) ==
    FirstDefined(<<InlineMoney(tds, labels), PairedMoney(tds, labels)>>)

\* one field of the fare: Strategy A, and Strategy B only where A left it unset
FareField(tds, labels) == FirstDefined(<<PairedMoney(tds, labels), InlineMoney(tds, labels)>>)

MoneyText(m) == m.currency \o <<SP>> \o formatMoney(m.amount)

OptionalMoneyText(o) == IF o = undefined THEN undefined ELSE Some(MoneyText(Get(o)))

\* the FareSummary with the currency looked for in base, then taxes, then total
FareSummaryBaseFirst(base, taxes, total) ==
    IF base = undefined /\ taxes = undefined /\ total = undefined THEN undefined
    ELSE Some([currency    |-> Some(Get(FirstDefined(<<base, taxes, total>>)).currency),
               base        |-> OptionalMoneyText(base),
               taxes       |-> OptionalMoneyText(taxes),
               total       |-> OptionalMoneyText(total),
               totalAmount |-> IF total = undefined THEN undefined
                               ELSE Some(Get(total).amount)])

\* the FareSummary of the three fields, or undefined when none was found
FareSummary(base, taxes, total) ==
    IF base = undefined /\ taxes = undefined /\ total = undefined THEN undefined
    ELSE Some([currency    |-> Some(Get(FirstDefined(<<total, taxes, base>>)).currency),
               base        |-> OptionalMoneyText(base),
               taxes       |-> OptionalMoneyText(taxes),
               total       |-> OptionalMoneyText(total),
               totalAmount |-> IF total = undefined THEN undefined
                               ELSE Some(Get(total).amount)])

\* extractFareFromHtml(doc): a FareSummary or undefined
FareOfCells(tds) ==
    IF tds = <<>> THEN undefined
    ELSE FareSummary(FareField(tds, FareLabels),
                     FareField(tds, TaxesLabels),
                     FareField(tds, TotalLabels))

extractFareFromHtml(rows) == FareOfCells(AllCells(rows))

(***************************************************************************)
(* Segments                                                                *)
(***************************************************************************)
\* a Segment as the extractors push it: dates, transit and price unset
NewSegment(idx, airline, flightNumber, cabin, from, to, depText, arrText) ==
    [idx           |-> idx,
     airline       |-> airline,
     flightNumber  |-> flightNumber,
     cabin         |-> cabin,
     from          |-> from,
     to            |-> to,
     depText       |-> depText,
     arrText       |-> arrText,
     depDate       |-> undefined,
     arrDate       |-> undefined,
     transitToNext |-> undefined,
     price         |-> undefined]

\* segments.push({idx: segments.length + 1, ...}) for each of the field tuples
RECURSIVE Numbered(_, _)
Numbered(fields, done) ==
    IF fields = <<>> THEN <<>>
    ELSE LET f == Head(fields)
         IN  <<NewSegment(done + 1, f[1], f[2], f[3], f[4], f[5], f[6], f[7])>>
                 \o Numbered(Tail(fields), done + 1)

(***************************************************************************)
(* HTML segment parsing                                                    *)
(***************************************************************************)
\* extractLastToken(s): the last word of the cleaned text
extractLastToken(s) ==
    LET parts == Words(clean(s))
    IN  IF parts = <<>> THEN <<>> ELSE parts[Len(parts)]

\* extractAfterLabel(s): the text after the first colon, or the whole text
extractAfterLabel(s) ==
    LET t   == clean(s)
        idx == IndexOf(":", t)
    IN  IF idx >= 1 THEN clean(SubSeq(t, idx + 1, Len(t))) ELSE t

\* the spellings /flight\s*number|n[uú]mero\s*de\s*vuelo/ matches in a cleaned text
FlightNumberLabels ==
    {<<"f", "l", "i", "g", "h", "t", " ", "n", "u", "m", "b", "e", "r">>, <<"f", "l", "i", "g", "h", "t", "n", "u", "m", "b", "e", "r">>}
    \cup {n \o a \o <<"d", "e">> \o b \o <<"v", "u", "e", "l", "o">> :
             n \in {<<"n", "u", "m", "e", "r", "o">>, <<"n", "ú", "m", "e", "r", "o">>}, a \in {<<>>, <<SP>>}, b \in {<<>>, <<SP>>}}

\* /flight\s*number|n[uú]mero\s*de\s*vuelo/i.test(col2)
IsFlightNumberLabel(col2) ==
    \E l \in FlightNumberLabels : Includes(MapChars(ToLowerChar, col2), l)

CellCountOfFlightRow == 8

\* the row tests with a floor of eight cells in the place of exactly eight
IsFlightRowAtLeastEight(tds) ==
    /\ Len(tds) >= CellCountOfFlightRow
    /\ IsFlightNumberLabel(clean(tds[2]))
    /\ clean(tds[1]) # <<>>

\* the row tests of parseHtmlPNR's loop: the rows that are not skipped
IsFlightRow(tds) ==
    /\ Len(tds) = CellCountOfFlightRow
    /\ IsFlightNumberLabel(clean(tds[2]))
    /\ clean(tds[1]) # <<>>

\* the fields parseHtmlPNR reads from a flight row
HtmlFields(tds) ==
    <<clean(tds[1]),
      extractLastToken(clean(tds[2])),
      extractAfterLabel(clean(tds[3])),
      extractAfterLabel(clean(tds[4])),
      extractAfterLabel(clean(tds[6])),
      extractAfterLabel(clean(tds[5])),
      extractAfterLabel(clean(tds[7]))>>

\* the segments parseHtmlPNR pushes, before the dates are applied
HtmlSegments(rows) == Numbered(MapSeq(HtmlFields, SelectSeq(rows, IsFlightRow)), 0)

(***************************************************************************)
(* RAW parsing                                                             *)
(***************************************************************************)
IsAlnum(c) == IsAsciiLetter(c) \/ IsDigit(c)

AllLetters(w) == \A i \in DOMAIN w : IsAsciiLetter(w[i])

\* the length of the longest prefix of digits of w
RECURSIVE DigitPrefixLen(_)
DigitPrefixLen(w) == IF w # <<>> /\ IsDigit(Head(w)) THEN 1 + DigitPrefixLen(Tail(w)) ELSE 0

\* [0-9]{1,4}[A-Z0-9]? as a whole word
IsFlightTail(w) ==
    \E k \in 1..4 :
        /\ Len(w) \in {k, k + 1}
        /\ AllDigits(SubSeq(w, 1, k))
        /\ Len(w) = k + 1 => IsAlnum(w[k + 1])

\* (\d{1,2})([A-Z]{3}) as a whole word
IsDayMonth(w) ==
    /\ Len(w) \in 4..5
    /\ AllDigits(SubSeq(w, 1, Len(w) - 3))
    /\ AllLetters(SubSeq(w, Len(w) - 2, Len(w)))

\* (\d{3,4}) between white space
IsTimeWord(w) == Len(w) \in 3..4 /\ AllDigits(w)

\* the words at which \s(\d{3,4})\s(\d{3,4}) can match: a time word followed by
\* a word that starts with three digits
TimePairAt(ws, j) == j + 1 <= Len(ws) /\ IsTimeWord(ws[j]) /\ DigitPrefixLen(ws[j + 1]) >= 3

\* the index of the departure time word of the match, 0 if the tail
\* \s+.*?\s(\d{3,4})\s(\d{3,4}) does not match.  The city pair is word 7; in a
\* cleaned line the white space before .*? and the one after it are two
\* different spaces, so .*? holds at least word 8 and the departure time is
\* word 9 or later; .*? is lazy, so the first pair wins.
RawTimesAt(ws) ==
    LET hits == {j \in 9..Len(ws) : TimePairAt(ws, j)}
    IN  IF hits = {} THEN 0 ELSE CHOOSE j \in hits : \A j2 \in hits : j <= j2

\* line.match(re) for a cleaned line, by its words:
\* /^\d+\s+([A-Z0-9]{1,3})\s+([0-9]{1,4}[A-Z0-9]?)\s+([A-Z])\s+(\d{1,2})([A-Z]{3})\s+\d+
\*   \s+([A-Z]{3})([A-Z]{3})\s+.*?\s(\d{3,4})\s(\d{3,4})/i
RawLineMatches(ws) ==
    /\ Len(ws) >= 7
    /\ AllDigits(ws[1])
    /\ Len(ws[2]) \in 1..3 /\ \A i \in DOMAIN ws[2] : IsAlnum(ws[2][i])
    /\ IsFlightTail(ws[3])
    /\ Len(ws[4]) = 1 /\ IsAsciiLetter(ws[4][1])
    /\ IsDayMonth(ws[5])
    /\ AllDigits(ws[6])
    /\ Len(ws[7]) = 6 /\ AllLetters(ws[7])
    /\ RawTimesAt(ws) # 0

\* HH:MM as parseRawPNR builds it: slice(0, 2) + ":" + slice(2)
RawTimeText(hhmm) == JsSlice(hhmm, 0, 2) \o <<":">> \o JsSlice(hhmm, 2, Len(hhmm))

\* the fields parseRawPNR reads from a matching line
RawFields(ws) ==
    LET day == SubSeq(ws[5], 1, Len(ws[5]) - 3)
        mon == SubSeq(ws[5], Len(ws[5]) - 2, Len(ws[5]))
        j   == RawTimesAt(ws)
        dep == ws[j]
        arr == SubSeq(ws[j + 1], 1, IF DigitPrefixLen(ws[j + 1]) >= 4 THEN 4 ELSE 3)
    IN  <<ws[2],
          ws[2] \o ws[3],
          ws[4] \o <<"-", "C", "l", "a", "s", "s">>,
          SubSeq(ws[7], 1, 3),
          SubSeq(ws[7], 4, 6),
          day \o <<SP>> \o mon \o <<SP>> \o RawTimeText(dep),
          day \o <<SP>> \o mon \o <<SP>> \o RawTimeText(arr)>>

\* raw.split(/\r\n|\r|\n/).map(clean).filter(Boolean)
RawLines(raw) == SelectSeq(MapSeq(clean, SplitOn(raw, {"LF", "CR"})), LAMBDA l : l # <<>>)

\* the segments parseRawPNR pushes, before the dates are applied
RawSegments(raw) ==
    LET matching == SelectSeq(MapSeq(Words, RawLines(raw)), RawLineMatches)
    IN  Numbered(MapSeq(RawFields, matching), 0)

(***************************************************************************)
(* Itinerary reconciler                                                    *)
(***************************************************************************)
\* formatDurationFromMinutes(mins), for mins >= 0
formatDurationFromMinutes(mins) ==
    NatToDigits(mins \div 60) \o <<"h", " ">> \o NatToDigits(mins % 60) \o <<"m">>

\* diffMinutes(a, b): both dates are whole minutes
diffMinutes(a, b) == b - a

\* seg.depText ? parseDateTextLoose(seg.depText, year) : undefined
DateOfText(text, y) == IF text = <<>> THEN undefined ELSE parseDateTextLoose(text, y)

\* the roll-over test with its comparison turned round
RollsOverOnLaterMonth(dep, lm) == dep # undefined /\ lm >= 0 /\ GetMonth(Get(dep)) > lm

\* the roll-over test of the loop
RollsOver(dep, lm) == dep # undefined /\ lm >= 0 /\ GetMonth(Get(dep)) < lm

\* the overnight test with <= in the place of <
OvernightArrivalOnEqual(dep, arr) ==
    IF dep # undefined /\ arr # undefined /\ Get(arr) <= Get(dep)
    THEN Some(Get(arr) + MinutesPerDay)
    ELSE arr

\* the arrival after the overnight test of the loop
OvernightArrival(dep, arr) ==
    IF dep # undefined /\ arr # undefined /\ Get(arr) < Get(dep)
    THEN Some(Get(arr) + MinutesPerDay)
    ELSE arr

\* the end of a pass that forgets lastMonth when the departure is not resolved
ResolvedInForgettingMonth(seg, y, lm, dep, arr) ==
    [seg       |-> [seg EXCEPT !.depDate = dep, !.arrDate = OvernightArrival(dep, arr)],
     year      |-> y,
     lastMonth |-> IF dep # undefined THEN GetMonth(Get(dep)) ELSE -1]

\* one pass of the first loop of applyDatesAndTransit over segment seg, with
\* the running year y and lastMonth lm: the segment, the year and lastMonth after it.
\* ResolvedIn is the end of the pass, with the dates parsed in the year y.
ResolvedIn(seg, y, lm, dep, arr) ==
    [seg       |-> [seg EXCEPT !.depDate = dep, !.arrDate = OvernightArrival(dep, arr)],
     year      |-> y,
     lastMonth |-> IF dep # undefined THEN GetMonth(Get(dep)) ELSE lm]

\* the pass with lastMonth left alone on the roll-over branch
ResolveOneKeepingMonth(seg, y, lm) ==
    IF RollsOver(DateOfText(seg.depText, y), lm)
    THEN [ResolvedIn(seg, y + 1, lm, DateOfText(seg.depText, y + 1), DateOfText(seg.arrText, y + 1))
             EXCEPT !.lastMonth = lm]
    ELSE ResolvedIn(seg, y, lm, DateOfText(seg.depText, y), DateOfText(seg.arrText, y))

ResolveOne(seg, y, lm) ==
    IF RollsOver(DateOfText(seg.depText, y), lm)
    THEN ResolvedIn(seg, y + 1, lm, DateOfText(seg.depText, y + 1), DateOfText(seg.arrText, y + 1))
    ELSE ResolvedIn(seg, y, lm, DateOfText(seg.depText, y), DateOfText(seg.arrText, y))

\* the second loop with > 0 in the place of >= 0
WithTransitOnPositiveGap(segs) ==
    [i \in DOMAIN segs |->
        IF /\ i < Len(segs)
           /\ segs[i].arrDate # undefined
           /\ segs[i + 1].depDate # undefined
           /\ diffMinutes(Get(segs[i].arrDate), Get(segs[i + 1].depDate)) > 0
        THEN [segs[i] EXCEPT !.transitToNext =
                 Some(formatDurationFromMinutes(
                          diffMinutes(Get(segs[i].arrDate), Get(segs[i + 1].depDate))))]
        ELSE segs[i]]

\* the second loop of applyDatesAndTransit
WithTransit(segs) ==
    [i \in DOMAIN segs |->
        IF /\ i < Len(segs)
           /\ segs[i].arrDate # undefined
           /\ segs[i + 1].depDate # undefined
           /\ diffMinutes(Get(segs[i].arrDate), Get(segs[i + 1].depDate)) >= 0
        THEN [segs[i] EXCEPT !.transitToNext =
                 Some(formatDurationFromMinutes(
                          diffMinutes(Get(segs[i].arrDate), Get(segs[i + 1].depDate))))]
        ELSE segs[i]]

\* the early returns of applyPerFlightPricing
PricingApplies(m, segs) ==
    /\ m.fare # undefined
    /\ Get(m.fare).totalAmount # undefined
    /\ ~IsFalsyNumber(Get(Get(m.fare).totalAmount))
    /\ Get(m.fare).currency # undefined
    /\ Get(Get(m.fare).currency) # <<>>
    /\ Len(segs) # 0

\* the share of one segment
PerFlight(totalAmount, n) == DividedBy(totalAmount, n)

\* applyPerFlightPricing(meta, segments): the segments after it
applyPerFlightPricing(m, segs) ==
    IF ~PricingApplies(m, segs) THEN segs
    ELSE LET currency == Get(Get(m.fare).currency)
             per      == PerFlight(Get(Get(m.fare).totalAmount), Len(segs))
         IN  [i \in DOMAIN segs |->
                 [segs[i] EXCEPT !.price =
                     Some([currency |-> currency,
                           amount   |-> per,
                           raw      |-> currency \o <<SP>> \o formatMoney(per)])]]

(***************************************************************************)
(* The inputs tried                                                        *)
(***************************************************************************)
MaxFlights == 2

MaxPricedFlights == 3

\* every sequence over the members of S of a length in lo..hi
SeqsOver(S, lo, hi) == UNION {[1..n -> S] : n \in lo..hi}

RECURSIVE Repeated(_, _)
Repeated(x, n) == IF n = 0 THEN <<>> ELSE <<x>> \o Repeated(x, n - 1)

RECURSIVE JoinWith(_, _)
JoinWith(parts, sep) ==
    IF parts = <<>> THEN <<>>
    ELSE IF Len(parts) = 1 THEN parts[1]
    ELSE parts[1] \o sep \o JoinWith(Tail(parts), sep)

\* a RAW line: index, carrier, flight number, cabin, date, a number, the city
\* pair, the words between the city pair and the times, the two times
RawLine(date, between, times) ==
    JoinWith(<<<<"1">>, <<"A", "A">>, <<"1", "0", "0">>, <<"Y">>, date, <<"1">>, <<"J", "F", "K", "L", "A", "X">>>> \o between \o times, <<SP>>)

RawDates == {<<"0", "5", "J", "A", "N">>, <<"3", "1", "D", "E", "C">>, <<"2", "8", "F", "E", "B">>, <<"1", "5", "X", "X", "X">>}

RawTimes == {<<<<"1", "2", "3", "4">>, <<"1", "4", "3", "0">>>>, <<<<"2", "3", "5", "0">>, <<"0", "0", "1", "0">>>>, <<<<"9", "3", "0">>, <<"1", "0", "4", "5">>>>}

RawLineNoStatus == RawLine(<<"0", "5", "J", "A", "N">>, <<>>, <<<<"1", "2", "3", "4">>, <<"1", "4", "3", "0">>>>)

RawLineWithStatus == RawLine(<<"0", "5", "J", "A", "N">>, <<<<"H", "K", "1">>>>, <<<<"1", "2", "3", "4">>, <<"1", "4", "3", "0">>>>)

RawLineChoices ==
    {RawLine(d, <<<<"H", "K", "1">>>>, <<<<"1", "2", "3", "4">>, <<"1", "4", "3", "0">>>>) : d \in RawDates}
    \cup {RawLine(<<"3", "1", "D", "E", "C">>, <<<<"H", "K", "1">>>>, t) : t \in RawTimes}
    \cup {RawLineNoStatus,
          RawLine(<<"3", "1", "D", "E", "C">>, <<>>, <<<<"2", "3", "5", "0">>, <<"0", "0", "1", "0">>, <<"0", "1", "3", "0">>>>),
          <<SP, SP>> \o RawLine(<<"0", "5", "J", "A", "N">>, <<<<"H", "K", "1">>, <<"NBSP">>>>, <<<<"1", "2", "3", "4">>, <<"1", "4", "3", "0">>>>),
          <<"P", "A", "S", "S", "E", "N", "G", "E", "R", "S", " ", "2">>}

RawInputs ==
    {[value |-> JoinWith(ls, <<"LF">>), rows |-> <<>>] : ls \in SeqsOver(RawLineChoices, 1, MaxFlights)}
    \cup {[value |-> v, rows |-> <<>>] : v \in {<<>>, <<SP>>}}

\* a table row of the AIR layout
FlightRow(airline, label, dep, arr) ==
    <<airline, label, <<"C", "l", "a", "s", "s", ":", " ", "Y">>, <<"F", "r", "o", "m", ":", " ", "J", "F", "K">>, <<"D", "e", "p", "a", "r", "t", "s", ":", " ">> \o dep,
      <<"T", "o", ":", " ", "L", "A", "X">>, <<"A", "r", "r", "i", "v", "e", "s", ":", " ">> \o arr, <<"F", "l", "y", "i", "n", "g", " ", "T", "i", "m", "e", ":", " ", "2", "h">>>>

DepArrTexts ==
    {<<<<"0", "5", " ", "J", "A", "N", " ", "1", "2", ":", "3", "4">>, <<"0", "5", " ", "J", "A", "N", " ", "1", "4", ":", "3", "0">>>>,
     <<<<"3", "1", " ", "D", "E", "C", " ", "2", "3", ":", "5", "0">>, <<"3", "1", " ", "D", "E", "C", " ", "0", "0", ":", "1", "0">>>>,
     <<<<"S", "a", "t", " ", "2", "8", " ", "F", "e", "b", " ", "2", "2", ":", "0", "0">>, <<"S", "u", "n", " ", "1", " ", "M", "a", "r", " ", "0", "1", ":", "3", "0">>>>,
     <<<<"0", "5", " ", "e", "n", "e", " ", "1", "0", ":", "0", "0">>, <<"0", "4", " ", "e", "n", "e", " ", "0", "8", ":", "0", "0">>>>,
     <<<<"1", "5", " ", "X", "X", "X", " ", "1", "0", ":", "0", "0">>, <<"1", "5", " ", "X", "X", "X", " ", "1", "2", ":", "0", "0">>>>,
     <<<<"0", "5", " ", "J", "A", "N", " ", "1", "2", ":", "3", "4">>, <<"0", "5", " ", "J", "A", "N", " ", "1", "2", ":", "3", "4">>>>,
     <<<<>>, <<"0", "5", " ", "J", "A", "N", " ", "1", "4", ":", "3", "0">>>>}

PlainFlightRow == FlightRow(<<"A", "A">>, <<"F", "l", "i", "g", "h", "t", " ", "N", "u", "m", "b", "e", "r", ":", " ", "1", "0", "0">>, <<"0", "5", " ", "J", "A", "N", " ", "1", "2", ":", "3", "4">>, <<"0", "5", " ", "J", "A", "N", " ", "1", "4", ":", "3", "0">>)

\* flight rows that differ in their dates
DatedRows == {FlightRow(<<"A", "A">>, <<"F", "l", "i", "g", "h", "t", " ", "N", "u", "m", "b", "e", "r", ":", " ", "1", "0", "0">>, t[1], t[2]) : t \in DepArrTexts}

\* rows that differ in what parseHtmlPNR tests: the number of cells, the
\* text of the first cell, the label of the second
LayoutRows ==
    {PlainFlightRow,
     SubSeq(PlainFlightRow, 1, 7),
     PlainFlightRow \o <<<<"x">>>>,
     FlightRow(<<>>, <<"F", "l", "i", "g", "h", "t", " ", "N", "u", "m", "b", "e", "r", ":", " ", "1", "0", "0">>, <<"0", "5", " ", "J", "A", "N", " ", "1", "2", ":", "3", "4">>, <<"0", "5", " ", "J", "A", "N", " ", "1", "4", ":", "3", "0">>),
     FlightRow(<<"NBSP">>, <<"F", "l", "i", "g", "h", "t", " ", "N", "u", "m", "b", "e", "r", ":", " ", "1", "0", "0">>, <<"0", "5", " ", "J", "A", "N", " ", "1", "2", ":", "3", "4">>, <<"0", "5", " ", "J", "A", "N", " ", "1", "4", ":", "3", "0">>),
     FlightRow(<<"A", "A">>, <<"F", "l", "i", "g", "h", "t", ":", " ", "1", "0", "0">>, <<"0", "5", " ", "J", "A", "N", " ", "1", "2", ":", "3", "4">>, <<"0", "5", " ", "J", "A", "N", " ", "1", "4", ":", "3", "0">>),
     FlightRow(<<"L", "A">>, <<"N", "Ú", "M", "E", "R", "O", " ", "D", "E", " ", "V", "U", "E", "L", "O", ":", " ", "8", "0", "0", "1">>, <<"0", "5", " ", "J", "A", "N", " ", "1", "2", ":", "3", "4">>, <<"0", "5", " ", "J", "A", "N", " ", "1", "4", ":", "3", "0">>)}

FareRowChoices ==
    {<<<<<<"T", "o", "t", "a", "l">>, <<"U", "S", "D", " ", "3", "0", "0">>>>>>,
     <<<<<<"T", "o", "t", "a", "l">>, <<"U", "S", "D", " ", "0">>>>>>,
     <<<<<<"T", "o", "t", "a", "l", ":">>, <<"U", "S", "D", " ", "0", ".", "0", "0">>>>>>,
     <<<<<<"F", "a", "r", "e">>, <<"U", "S", "D", " ", "2", "0", "0", ".", "0", "0">>>>, <<<<"T", "a", "x", "e", "s">>, <<"U", "S", "D", " ", "1", "0", "0", ".", "0", "0">>>>>>,
     <<<<<<"T", "a", "r", "i", "f", "a">>, <<"E", "U", "R", " ", "1", ".", "0", "0", "0", ",", "5", "0">>>>, <<<<"I", "m", "p", "u", "e", "s", "t", "o", "s">>, <<"E", "U", "R", " ", "2", "3", "4", ",", "0", "6">>>>, <<<<"T", "o", "t", "a", "l", ":", " ", "E", "U", "R", " ", "1", ".", "2", "3", "4", ",", "5", "6">>>>>>,
     <<<<<<"T", "o", "t", "a", "l">>, <<"U", "S", "D", " ", "1", "0", "0", ".", "0", "1">>>>>>}

\* tables without a flight row, that differ in what extractFareFromHtml reads:
\* the currencies of the fields, a label met twice, a label cell next to a cell
\* with inline text, inline texts that do and do not parse, no fare at all
FareOnlyRows ==
    {<<<<<<"F", "a", "r", "e">>, <<"U", "S", "D", " ", "2", "0", "0", ".", "0", "0">>>>, <<<<"T", "o", "t", "a", "l">>, <<"E", "U", "R", " ", "1", "8", "0", ".", "0", "0">>>>>>,
     <<<<<<"F", "a", "r", "e">>, <<"U", "S", "D", " ", "2", "0", "0", ".", "0", "0">>>>, <<<<"T", "a", "x", "e", "s">>, <<"E", "U", "R", " ", "1", "0", ".", "0", "0">>>>>>,
     <<<<<<"F", "a", "r", "e">>, <<"U", "S", "D", " ", "2", "0", "0", ".", "0", "0">>>>>>,
     <<<<<<"T", "o", "t", "a", "l">>, <<"U", "S", "D", " ", "3", "0", "0">>, <<"T", "o", "t", "a", "l", ":", " ", "E", "U", "R", " ", "5">>>>>>,
     <<<<<<"T", "o", "t", "a", "l", ":", " ", "E", "U", "R", " ", "5">>>>, <<<<"T", "o", "t", "a", "l">>, <<"U", "S", "D", " ", "3", "0", "0">>>>>>,
     <<<<<<"T", "o", "t", "a", "l">>, <<"U", "S", "D", " ", "1">>>>, <<<<"T", "o", "t", "a", "l">>, <<"U", "S", "D", " ", "2">>>>>>,
     <<<<<<"T", "o", "t", "a", "l", ":", " ", "E", "U", "R", " ", "1", ".", "2", ".", "3">>>>, <<<<"t", "o", "t", "a", "l", " ", "e", "u", "r", " ", "6">>>>, <<<<"T", "o", "t", "a", "l", " ", "-", " ", "E", "U", "R", " ", "7">>>>>>,
     <<<<<<"F", "a", "r", "e", ":", " ", "U", "S", "D", " ", "1", "0", " ", "T", "a", "x", "e", "s", ":", " ", "A", "R", "S", " ", "2">>>>, <<<<"F", "a", "r", "e", ":", " ", "U", "S", "D", " ", "1", "1">>>>, <<<<"T", "a", "x", "e", "s">>, <<"E", "U", "R", " ", "3">>>>>>,
     <<<<<<"R", "e", "m", "a", "r", "k", "s">>, <<"n", "o", "n", "e">>>>>>}

\* a priced itinerary whose first flight has a departure that does not resolve
UnresolvedThenPlainRows ==
    <<<<<<"T", "o", "t", "a", "l">>, <<"U", "S", "D", " ", "3", "0", "0">>>>,
      FlightRow(<<"A", "A">>, <<"F", "l", "i", "g", "h", "t", " ", "N", "u", "m", "b", "e", "r", ":", " ", "1", "0", "0">>, <<"1", "5", " ", "X", "X", "X", " ", "1", "0", ":", "0", "0">>, <<"0", "5", " ", "J", "A", "N", " ", "1", "0", ":", "0", "0">>),
      PlainFlightRow>>

\* a flight that leaves on 31 December and lands on 1 January
NewYearFlightRows ==
    <<FlightRow(<<"A", "A">>, <<"F", "l", "i", "g", "h", "t", " ", "N", "u", "m", "b", "e", "r", ":", " ", "1", "0", "0">>, <<"3", "1", " ", "D", "E", "C", " ", "2", "2", ":", "0", "0">>, <<"0", "1", " ", "J", "A", "N", " ", "0", "6", ":", "0", "0">>)>>

MarkupHeads == {<<"<", "t", "a", "b", "l", "e", ">">>, <<"<", "h", "t", "m", "l", ">">>, <<"<", "H", "T", "M", "L", ">">>, <<"A", "I", "R", " ", "<", "h", "t", "m", "l", ">">>, <<"A", "I", "R", " ", "<", "H", "T", "M", "L", ">">>}

OtherCaseHeads == {<<"A", "I", "R", " ", "<", "H", "t", "m", "l", ">">>, <<"A", "I", "R", " ", "<", "h", "T", "M", "L", ">">>}

MarkupInputs ==
    {[value |-> <<"<", "t", "a", "b", "l", "e", ">">>, rows |-> rs] :
        rs \in SeqsOver(DatedRows, 0, MaxFlights) \cup SeqsOver(LayoutRows, 0, MaxFlights)}
    \cup {[value |-> <<"<", "t", "a", "b", "l", "e", ">">>, rows |-> f \o Repeated(PlainFlightRow, n)] :
             f \in FareRowChoices, n \in 0..MaxPricedFlights}
    \cup {[value |-> <<"<", "t", "a", "b", "l", "e", ">">>, rows |-> f] : f \in FareOnlyRows \cup {UnresolvedThenPlainRows, NewYearFlightRows}}
    \cup {[value |-> h, rows |-> <<PlainFlightRow>>] : h \in MarkupHeads \cup OtherCaseHeads}

Inputs == RawInputs \cup MarkupInputs

(***************************************************************************)
(* The convert pipeline                                                    *)
(*                                                                         *)
(* input.value is textarea.value and input.rows the table rows of the      *)
(* document DOMParser builds from it.  The nested detail table of a flight *)
(* row, detectPassengers, detectBags and the rendering are left out: no    *)
(* property below reads what they produce.                                 *)
(***************************************************************************)
NoInput == [value |-> <<>>, rows |-> <<>>]

NoMeta == [fare |-> undefined]

InitPipeline ==
    /\ pc = "idle"
    /\ input = NoInput
    /\ isHtml = FALSE
    /\ segments = <<>>
    /\ meta = NoMeta
    /\ currentYear \in {2027, 2028}
    /\ year = currentYear
    /\ lastMonth = -1
    /\ cursor = 1

\* the classification of convert
IsHtmlInput(text) ==
    StartsWith(text, <<"<">>) \/ Includes(text, <<"<", "H", "T", "M", "L">>) \/ Includes(text, <<"<", "h", "t", "m", "l">>)

\* convert, up to the call of applyDatesAndTransit: the empty input is turned
\* away; otherwise the input is classified and its segments and fare extracted
Convert ==
    /\ pc = "idle"
    /\ \E inp \in Inputs :
          /\ input' = inp
          /\ IF Trim(inp.value) = <<>>
             THEN /\ pc' = "empty"
                  /\ UNCHANGED <<isHtml, segments, meta>>
             ELSE /\ isHtml' = IsHtmlInput(Trim(inp.value))
                  /\ segments' = IF isHtml' THEN HtmlSegments(inp.rows)
                                            ELSE RawSegments(Trim(inp.value))
                  /\ meta' = [fare |-> IF isHtml' THEN extractFareFromHtml(inp.rows)
                                                  ELSE undefined]
                  /\ pc' = IF segments' = <<>> THEN "done" ELSE "dates"
    /\ year' = currentYear
    /\ lastMonth' = -1
    /\ cursor' = 1
    /\ UNCHANGED <<call, currentYear>>

\* applyDatesAndTransit, first loop: one segment
ResolveDates ==
    /\ pc = "dates"
    /\ \E r \in {ResolveOne(segments[cursor], year, lastMonth)} :
          /\ segments' = [segments EXCEPT ![cursor] = r.seg]
          /\ year' = r.year
          /\ lastMonth' = r.lastMonth
    /\ cursor' = cursor + 1
    /\ pc' = IF cursor = Len(segments) THEN "transit" ELSE "dates"
    /\ UNCHANGED <<call, input, isHtml, meta, currentYear>>

\* applyDatesAndTransit, second loop; parseRawPNR returns after it
ComputeTransit ==
    /\ pc = "transit"
    /\ segments' = WithTransit(segments)
    /\ pc' = IF isHtml THEN "pricing" ELSE "done"
    /\ UNCHANGED <<call, input, isHtml, meta, currentYear, year, lastMonth, cursor>>

\* parseHtmlPNR: applyPerFlightPricing, then the result is returned
ApplyPricing ==
    /\ pc = "pricing"
    /\ segments' = applyPerFlightPricing(meta, segments)
    /\ pc' = "done"
    /\ UNCHANGED <<call, input, isHtml, meta, currentYear, year, lastMonth, cursor>>

\* the Clear button: the input and what was rendered from it are dropped
Clear ==
    /\ pc \in {"done", "empty"}
    /\ pc' = "idle"
    /\ input' = NoInput
    /\ isHtml' = FALSE
    /\ segments' = <<>>
    /\ meta' = NoMeta
    /\ year' = currentYear
    /\ lastMonth' = -1
    /\ cursor' = 1
    /\ UNCHANGED <<call, currentYear>>

Next == Convert \/ ResolveDates \/ ComputeTransit \/ ApplyPricing \/ Clear

(***************************************************************************)
(* The helpers, applied to inputs drawn from bounded sets                  *)
(***************************************************************************)
MaxTokenLen == 4

MaxNumberLen == 6

MaxCents == 1500

\* every string over the characters of alphabet of a length in lo..hi
StringsOver(alphabet, lo, hi) == UNION {[1..n -> alphabet] : n \in lo..hi}

\* the month tokens tried: every string of a few letters, the table keys in
\* upper, lower and capitalised spelling, and some tokens around them
MonthTokens ==
    StringsOver({"E", "N", "J", "A", "U", "e"}, 0, MaxTokenLen)
    \cup Range(MONTHS_EN_3) \cup Range(MONTHS_ES_3) \cup Range(MONTHS_ES_FULL)
    \cup {MapChars(ToLowerChar, k) : k \in Range(MONTHS_EN_3) \cup Range(MONTHS_ES_FULL)}
    \cup {<<k[1]>> \o MapChars(ToLowerChar, Tail(k)) : k \in Range(MONTHS_ES_3) \cup Range(MONTHS_ES_FULL)}
    \cup {<<"S", "e", "p", "t", "i", "e", "m", "b", "r", "e">>, <<"J", "A", "N", "U", "A", "R", "Y">>, <<"D", "e", "c", "e", "m", "b", "e", "r">>, <<"J", "U", "N", "K">>, <<"M", "A", "R", "T", "E", "S">>, <<"X", "Y", "Z">>, <<"E", "N", "E", "R">>,
          <<"é", "n", "e", "r", "o">>, <<"D", "Í", "C">>, <<"Ñ", "o", "v">>, <<" ">>, <<" ", "e", "n", "e", " ">>, <<"F", "E", "B", "R", "E", "R">>, <<"S", "E", "P", "T", "I", "E", "M", "B", "R", "E", "S">>, <<"1", "2">>}

\* the strings parseLocaleNumber is called with are matches of [0-9][0-9\.,]*
NumberStrings ==
    {<<d>> \o s : d \in {"1", "5"}, s \in StringsOver({"1", "5", ".", ","}, 0, MaxNumberLen - 1)}
    \cup {<<"1", ".", "2", "3", "4", ",", "5", "6">>, <<"1", ",", "2", "3", "4", ".", "5", "6">>, <<"1", ".", "2", "3", "4">>, <<"1", "2", ",", "5">>, <<"1", ".", "2", "3", "4", ".", "5", "6", "7", ",", "8", "9">>, <<"1", ",", "2", "3", "4", ",", "5", "6", "7", ".", "8", "9">>,
          <<"3", "0", "0">>, <<"0">>, <<"0", ".", "0", "0">>, <<"1", "0", "0", ".", "0", "0">>}

CurrencyCodes == {<<"U", "S", "D">>, <<"E", "U", "R">>, <<"A", "R", "S">>}

\* amounts with two decimals
MoneyAmounts ==
    {Fraction(c, 100) : c \in (0..MaxCents) \cup {9999, 10000, 99999, 100000, 123456, 1000000}}

NoCall == [fn |-> "none", arg |-> <<>>, ret |-> <<>>]

MonthFromTokenCall ==
    /\ call = NoCall
    /\ \E token \in MonthTokens :
          call' = [fn |-> "monthFromToken", arg |-> token, ret |-> monthFromToken(token)]
    /\ UNCHANGED pipelineVars

ParseLocaleNumberCall ==
    /\ call = NoCall
    /\ \E s \in NumberStrings :
          call' = [fn |-> "parseLocaleNumber", arg |-> s, ret |-> parseLocaleNumber(s)]
    /\ UNCHANGED pipelineVars

\* parseMoneyRaw applied to "<CCY> <formatMoney(a)>"
MoneyRoundTripCall ==
    /\ call = NoCall
    /\ \E ccy \in CurrencyCodes, a \in MoneyAmounts :
          LET text == ccy \o <<SP>> \o formatMoney(a)
          IN  call' = [fn  |-> "parseMoneyRaw",
                       arg |-> [currency |-> ccy, amount |-> a, text |-> text],
                       ret |-> parseMoneyRaw(text)]
    /\ UNCHANGED pipelineVars

\* the helper has returned and its frame is gone
HelperReturn ==
    /\ call # NoCall
    /\ call' = NoCall
    /\ UNCHANGED pipelineVars

(***************************************************************************)
(* parseDateTextLoose, applied to texts put together from a day, a month   *)
(* word and a time                                                         *)
(***************************************************************************)
MaxDay == 32

DayWords == {NatToDigits(d) : d \in 0..MaxDay} \cup {<<"0", "5">>, <<"9", "9">>, <<"1", "2", "3">>, <<"5", "t", "h">>, <<>>}

MonthWords == {<<"J", "A", "N">>, <<"F", "e", "b">>, <<"d", "i", "c">>, <<"D", "i", "c", "i", "e", "m", "b", "r", "e">>, <<"S", "E", "P", "T">>, <<"A", "P", "R">>, <<"X", "X", "X">>, <<"J", "u">>, <<"J", "A", "N", "1">>}

TimeWords == {<<"0", "0", ":", "0", "0">>, <<"9", ":", "3", "0">>, <<"1", "2", ":", "3", "4">>, <<"2", "3", ":", "5", "9">>, <<"2", "4", ":", "0", "0">>, <<"2", "5", ":", "3", "0">>, <<"1", "0", ":", "7", "5">>,
              <<"9", "3", ":", "0">>, <<"1", "2", "3", "4">>, <<":", "3", "0">>}

TextHeads == {<<>>, <<"S", "a", "t", " ">>, <<"NBSP">> \o <<"D", "e", "p", "a", "r", "t", "s", ":", " ", " ">>}

\* a second day, month word and time after the first, or none
LaterParts == {<<>>, <<<<"5">>, <<"M", "A", "R">>, <<"1", "0", ":", "0", "0">>>>}

BaseYears == {2027, 2028}

DateText(head, parts, later) ==
    head \o JoinWith(parts, <<SP>>) \o (IF later = <<>> THEN <<>> ELSE <<SP>> \o JoinWith(later, <<SP>>))

ParseDateTextLooseCall ==
    /\ call = NoCall
    /\ \E day \in DayWords, mon \in MonthWords, time \in TimeWords,
          head \in TextHeads, later \in LaterParts, baseYear \in BaseYears :
          \E text \in {DateText(head, <<day, mon, time>>, later)} :
              call' = [fn  |-> "parseDateTextLoose",
                       arg |-> [text |-> text, baseYear |-> baseYear,
                                parts |-> <<day, mon, time>>, later |-> later],
                       ret |-> parseDateTextLoose(text, baseYear)]
    /\ UNCHANGED pipelineVars

(***************************************************************************)
(* Specifications                                                          *)
(***************************************************************************)
Init == call = NoCall /\ InitPipeline

\* the convert pipeline
Spec == Init /\ [][Next]_vars

\* the helpers, one at a time
SpecMonth == Init /\ [][MonthFromTokenCall \/ HelperReturn]_vars

SpecNumber == Init /\ [][ParseLocaleNumberCall \/ HelperReturn]_vars

SpecMoney == Init /\ [][MoneyRoundTripCall \/ HelperReturn]_vars

SpecDate == Init /\ [][ParseDateTextLooseCall \/ HelperReturn]_vars

(***************************************************************************)
(* Properties of the convert pipeline                                      *)
(***************************************************************************)
\* convert went past its empty-input return: the input has been parsed
Parsed == pc \in {"dates", "transit", "pricing", "done"}

\* C1: the RAW line "1 AA 100 Y 05JAN 1 JFKLAX 1234 1430", whose two times
\* come directly after the city pair, yields exactly one segment: flight
\* AA100 from JFK to LAX, with "12:34" in depText and "14:30" in arrText.
C1_DirectTimesLineYieldsSegment ==
    (pc = "done" /\ input.value = RawLineNoStatus) =>
        /\ Len(segments) = 1
        /\ segments[1].flightNumber = <<"A", "A", "1", "0", "0">>
        /\ segments[1].from = <<"J", "F", "K">>
        /\ segments[1].to = <<"L", "A", "X">>
        /\ Includes(segments[1].depText, <<"1", "2", ":", "3", "4">>)
        /\ Includes(segments[1].arrText, <<"1", "4", ":", "3", "0">>)

\* C1, the same line with a word between the city pair and the times
\* ("... JFKLAX HK1 1234 1430"): this one does yield that segment.
C1_LineWithStatusYieldsSegment ==
    (pc = "done" /\ input.value = RawLineWithStatus) =>
        /\ Len(segments) = 1
        /\ segments[1].flightNumber = <<"A", "A", "1", "0", "0">>
        /\ segments[1].from = <<"J", "F", "K">>
        /\ segments[1].to = <<"L", "A", "X">>
        /\ Includes(segments[1].depText, <<"1", "2", ":", "3", "4">>)
        /\ Includes(segments[1].arrText, <<"1", "4", ":", "3", "0">>)

\* the two tests C2 names: exactly 8 cells, and the label in the second cell
MeetsCellCountAndLabel(tds) ==
    Len(tds) = CellCountOfFlightRow /\ IsFlightNumberLabel(clean(tds[2]))

\* the rows that meet the two tests and have text in their first cell
RowsWithAirline(rows) ==
    SelectSeq(rows, LAMBDA tds : MeetsCellCountAndLabel(tds) /\ clean(tds[1]) # <<>>)

\* C2 as stated: a row produces a segment if and only if it has exactly 8
\* cells and its second cell matches the flight-number label; nothing else,
\* the content of the first cell included, decides.
C2_Original ==
    (Parsed /\ isHtml) =>
        Len(segments) = Len(SelectSeq(input.rows, MeetsCellCountAndLabel))

\* C2 (amended): a row produces a segment if and only if it has exactly 8
\* cells, its second cell matches the flight-number label and its first cell
\* is not empty once cleaned; the segments are those rows in document order.
C2_RowAcceptedIffCellsLabelAndAirline ==
    (Parsed /\ isHtml) =>
        /\ Len(segments) = Len(RowsWithAirline(input.rows))
        /\ \A k \in DOMAIN segments :
              /\ segments[k].idx = k
              /\ segments[k].airline = clean(RowsWithAirline(input.rows)[k][1])
              /\ segments[k].depText = extractAfterLabel(clean(RowsWithAirline(input.rows)[k][5]))

\* the 9-cell row is turned away and the 8-cell row after it accepted
C2_Witness ==
    /\ pc = "done"
    /\ isHtml
    /\ input.rows = <<PlainFlightRow \o <<<<"x">>>>, PlainFlightRow>>
    /\ Len(segments) = 1
    /\ segments[1].airline = <<"A", "A">>
    /\ segments[1].flightNumber = <<"1", "0", "0">>

\* the 7-cell row is turned away
C2_WitnessSevenCells ==
    /\ pc = "done"
    /\ isHtml
    /\ input.rows = <<SubSeq(PlainFlightRow, 1, 7)>>
    /\ segments = <<>>

\* segment i has been through the first loop of applyDatesAndTransit
IsResolved(i) == pc \in {"transit", "pricing", "done"} \/ (pc = "dates" /\ i < cursor)

\* the dates of seg are its texts read in the year y (the arrival a day later
\* where the overnight rule moved it)
ResolvedInYear(seg, y) ==
    /\ seg.depDate = DateOfText(seg.depText, y)
    /\ IF DateOfText(seg.arrText, y) = undefined
       THEN seg.arrDate = undefined
       ELSE seg.arrDate \in {DateOfText(seg.arrText, y),
                             Some(Get(DateOfText(seg.arrText, y)) + 24 * 60)}

DepartureMonth(seg) == GetMonth(Get(seg.depDate))

\* C3: of two consecutive segments whose resolved departures are in December
\* and then in January, the first has its dates resolved in the base year
\* (the current year, for the first segment of the itinerary) and the second
\* has its dates resolved in the year after.
C3_DecemberThenJanuary ==
    \A i \in 1..(Len(segments) - 1) :
        (/\ IsResolved(i + 1)
         /\ segments[i].depDate # undefined
         /\ segments[i + 1].depDate # undefined
         /\ DepartureMonth(segments[i]) = 11
         /\ DepartureMonth(segments[i + 1]) = 0)
        => LET base == IF i = 1 THEN currentYear
                       ELSE GetFullYear(Get(segments[i].depDate))
           IN  /\ ResolvedInYear(segments[i], base)
               /\ ResolvedInYear(segments[i + 1], base + 1)

C3_Witness ==
    /\ pc = "done"
    /\ Len(segments) = 2
    /\ segments[1].depDate # undefined
    /\ segments[2].depDate # undefined
    /\ DepartureMonth(segments[1]) = 11
    /\ DepartureMonth(segments[2]) = 0
    /\ GetFullYear(Get(segments[1].depDate)) = currentYear
    /\ GetFullYear(Get(segments[2].depDate)) = currentYear + 1

\* C4: each pass of the first loop leaves a segment whose departure and
\* arrival both resolve with depDate as resolved and with arrDate the
\* resolved arrival plus 24 hours when that arrival is strictly earlier than
\* the departure, and the resolved arrival itself otherwise; the rest of
\* the run changes neither date.
C4_OvernightArrivalPlusDay ==
    [][/\ pc = "dates" =>
            LET seg == segments'[cursor]
                dep == DateOfText(seg.depText, year')
                arr == DateOfText(seg.arrText, year')
            IN  (dep # undefined /\ arr # undefined) =>
                    /\ seg.depDate = dep
                    /\ seg.arrDate = IF Get(arr) < Get(dep)
                                     THEN Some(Get(arr) + 24 * 60)
                                     ELSE arr
       /\ pc \in {"transit", "pricing"} =>
            /\ Len(segments') = Len(segments)
            /\ \A i \in DOMAIN segments :
                  /\ segments'[i].depDate = segments[i].depDate
                  /\ segments'[i].arrDate = segments[i].arrDate]_vars

\* departure 23:50, arrival 00:10 of the same day: the arrival ends 20
\* minutes after the departure
C4_Witness ==
    /\ pc = "done"
    /\ Len(segments) >= 1
    /\ Includes(segments[1].depText, <<"3", "1", " ", "D", "E", "C", " ", "2", "3", ":", "5", "0">>)
    /\ Includes(segments[1].arrText, <<"3", "1", " ", "D", "E", "C", " ", "0", "0", ":", "1", "0">>)
    /\ segments[1].depDate = Some(MakeDate(currentYear, 11, 31, 23, 50))
    /\ segments[1].arrDate = Some(MakeDate(currentYear, 11, 31, 23, 50) + 20)

\* an arrival at the minute of the departure is left as resolved
C4_WitnessEqual ==
    /\ pc = "done"
    /\ Len(segments) >= 1
    /\ segments[1].depDate # undefined
    /\ segments[1].arrDate = segments[1].depDate

\* the fare of the run has a total and a currency
HasTotalAndCurrency ==
    /\ meta.fare # undefined
    /\ Get(meta.fare).totalAmount # undefined
    /\ Get(meta.fare).currency # undefined

\* every segment carries the share total/n, in the fare's currency
EverySegmentPriced ==
    LET currency == Get(Get(meta.fare).currency)
        share    == DividedBy(Get(Get(meta.fare).totalAmount), Len(segments))
    IN  \A i \in DOMAIN segments :
            segments[i].price = Some([currency |-> currency,
                                      amount   |-> share,
                                      raw      |-> currency \o <<SP>> \o formatMoney(share)])

\* C5: whenever the fare has a total (a total of 0 included) and a currency
\* and there is at least one segment, every segment's price is the share
\* total/n with that currency and raw "<currency> <share with 2 decimals>";
\* a total of 300 USD over 3 segments gives "USD 100.00" each.
C5_PriceSetForEveryPresentTotal ==
    (pc = "done" /\ isHtml /\ HasTotalAndCurrency /\ Len(segments) >= 1) =>
        /\ EverySegmentPriced
        /\ (Get(Get(meta.fare).totalAmount) = Fraction(300, 1) /\ Len(segments) = 3) =>
              \A i \in DOMAIN segments : Get(segments[i].price).raw = <<"U", "S", "D", " ", "1", "0", "0", ".", "0", "0">>

\* C5, for the totals other than 0: these are shared out as stated.
C5_PriceSetForEveryNonZeroTotal ==
    (/\ pc = "done" /\ isHtml /\ HasTotalAndCurrency /\ Len(segments) >= 1
     /\ Get(Get(meta.fare).totalAmount) # Fraction(0, 1)) =>
        /\ EverySegmentPriced
        /\ (Get(Get(meta.fare).totalAmount) = Fraction(300, 1) /\ Len(segments) = 3) =>
              \A i \in DOMAIN segments : Get(segments[i].price).raw = <<"U", "S", "D", " ", "1", "0", "0", ".", "0", "0">>

\* C10: a non-empty trimmed input is classified as markup if and only if it
\* begins with "<" or contains "<html" in any letter case; every other
\* input is parsed as RAW.
C10_MarkupIffAngleOrHtmlAnyCase ==
    Parsed =>
        isHtml = (\/ StartsWith(Trim(input.value), <<"<">>)
                  \/ Includes(MapChars(ToLowerChar, Trim(input.value)), <<"<", "h", "t", "m", "l">>))

\* C10, for the two spellings convert looks for: these are classified as stated.
C10_MarkupIffAngleOrHtmlUpperOrLower ==
    Parsed =>
        isHtml = (\/ StartsWith(Trim(input.value), <<"<">>)
                  \/ Includes(Trim(input.value), <<"<", "h", "t", "m", "l">>)
                  \/ Includes(Trim(input.value), <<"<", "H", "T", "M", "L">>))

(***************************************************************************)
(* Properties of the number and money parser                               *)
(***************************************************************************)
DigitsOf(s) == SelectSeq(s, IsDigit)

\* the value of s read with its last separator as the decimal point and the
\* other separators dropped
ValueWithLastSeparatorAsPoint(s) ==
    LET last == IF LastIndexOfChar(",", s) > LastIndexOfChar(".", s)
                THEN LastIndexOfChar(",", s) ELSE LastIndexOfChar(".", s)
    IN  Fraction(DigitsToNat(DigitsOf(s)), Pow10(Len(s) - last))

HasBothSeparators(s) == "," \in Range(s) /\ "." \in Range(s)

HasOneKindOfSeparator(s) == ("," \in Range(s)) # ("." \in Range(s))

TheSeparatorOf(s) == IF "," \in Range(s) THEN "," ELSE "."

\* C6: for a string with both separators, the kind that occurs last is the
\* decimal separator and every occurrence of the other kind is dropped: the
\* result is the number so written, and NaN when no number is so written
\* (the decimal kind occurs more than once).
C6_LastSeparatorKindIsDecimal ==
    (call.fn = "parseLocaleNumber" /\ HasBothSeparators(call.arg)) =>
        LET s   == call.arg
            dec == IF LastIndexOfChar(",", s) > LastIndexOfChar(".", s) THEN "," ELSE "."
        IN  IF CountChar(dec, s) = 1
            THEN call.ret = ValueWithLastSeparatorAsPoint(s)
            ELSE IsNaN(call.ret)

C6_Witness ==
    /\ call.fn = "parseLocaleNumber"
    /\ call.arg = <<"1", ".", "2", "3", "4", ",", "5", "6">>
    /\ call.ret = Fraction(123456, 100)

C6_WitnessCommaThousands ==
    /\ call.fn = "parseLocaleNumber"
    /\ call.arg = <<"1", ",", "2", "3", "4", ".", "5", "6">>
    /\ call.ret = Fraction(123456, 100)

\* C7 as stated: with one kind of separator, a final group of 1 or 2 digits
\* makes the separator the decimal point and the result is a number, the one
\* so written; otherwise the result is the integer of the digits.
C7_Original ==
    (call.fn = "parseLocaleNumber" /\ HasOneKindOfSeparator(call.arg)) =>
        LET s == call.arg
        IN  IF EndsWithSepAndDigits(s, TheSeparatorOf(s))
            THEN /\ ~IsNaN(call.ret)
                 /\ CountChar(TheSeparatorOf(s), s) = 1 => call.ret = ValueWithLastSeparatorAsPoint(s)
            ELSE call.ret = Fraction(DigitsToNat(DigitsOf(s)), 1)

\* C7 (amended): with one kind of separator, a final group of 1 or 2 digits
\* makes the separator the decimal point; the result is the number so written
\* when the separator occurs once, and NaN when it occurs more than once.
\* Otherwise every separator is dropped and the result is the integer of the
\* digits.
C7_OneSeparatorKind ==
    (call.fn = "parseLocaleNumber" /\ HasOneKindOfSeparator(call.arg)) =>
        LET s == call.arg
        IN  IF EndsWithSepAndDigits(s, TheSeparatorOf(s))
            THEN IF CountChar(TheSeparatorOf(s), s) = 1
                 THEN call.ret = ValueWithLastSeparatorAsPoint(s)
                 ELSE IsNaN(call.ret)
            ELSE call.ret = Fraction(DigitsToNat(DigitsOf(s)), 1)

C7_Witness ==
    /\ call.fn = "parseLocaleNumber"
    /\ call.arg = <<"1", ",", "1", ",", "5">>
    /\ IsNaN(call.ret)

\* C8: "<CCY> <formatMoney(a)>" parses to the currency CCY and to an amount
\* that formatMoney renders as the same string.
C8_MoneyRoundTrip ==
    call.fn = "parseMoneyRaw" =>
        /\ IsDefined(call.ret)
        /\ Get(call.ret).currency = call.arg.currency
        /\ formatMoney(Get(call.ret).amount) = formatMoney(call.arg.amount)

C8_Witness ==
    /\ call.fn = "parseMoneyRaw"
    /\ call.arg.text = <<"U", "S", "D", " ", "1", "2", "3", "4", ".", "5", "6">>
    /\ IsDefined(call.ret)
    /\ formatMoney(Get(call.ret).amount) = <<"1", "2", "3", "4", ".", "5", "6">>

(***************************************************************************)
(* Properties of the month resolver                                        *)
(***************************************************************************)
\* upper-cased, diacritics stripped, trimmed: written out for the letters of
\* the month class
PlainUpper(c) ==
    IF c \in Range(<<"á", "Á">>) THEN "A"
    ELSE IF c \in Range(<<"é", "É">>) THEN "E"
    ELSE IF c \in Range(<<"í", "Í">>) THEN "I"
    ELSE IF c \in Range(<<"ó", "Ó">>) THEN "O"
    ELSE IF c \in Range(<<"ú", "Ú", "ü", "Ü">>) THEN "U"
    ELSE IF c \in Range(<<"ñ", "Ñ">>) THEN "N"
    ELSE IF IsLower(c) THEN UpperAZ[IndexOf(c, LowerAZ)]
    ELSE c

PlainToken(token) == MapChars(PlainUpper, Trim(token))

\* the months a token names: by its whole spelling in the Spanish names, or
\* by its first three letters in the Spanish or the English abbreviations
MonthsNamedBy(k) ==
    {i \in 0..11 : \/ k = MONTHS_ES_FULL[i + 1]
                   \/ JsSlice(k, 0, 3) = MONTHS_ES_3[i + 1]
                   \/ JsSlice(k, 0, 3) = MONTHS_EN_3[i + 1]}

\* C9: monthFromToken returns i only for a token that names month i, and
\* returns undefined for every token that names no month, the empty one
\* included; where the tables disagree the Spanish name wins over the Spanish
\* abbreviation, and that over the English one.
C9_MonthOnlyForKnownToken ==
    call.fn = "monthFromToken" =>
        LET k == PlainToken(call.arg)
        IN  /\ IsDefined(call.ret) => Get(call.ret) \in MonthsNamedBy(k)
            /\ MonthsNamedBy(k) = {} => call.ret = undefined
            /\ MonthsNamedBy(k) # {} => IsDefined(call.ret)
            /\ k = <<>> => call.ret = undefined
            /\ call.arg \in {<<"E", "N", "E">>, <<"J", "A", "N">>} => call.ret = Some(0)
            /\ call.arg = <<"S", "e", "p", "t", "i", "e", "m", "b", "r", "e">> => call.ret = Some(8)

C9_Witness ==
    /\ call.fn = "monthFromToken"
    /\ call.arg = <<"S", "e", "p", "t", "i", "e", "m", "b", "r", "e">>
    /\ call.ret = Some(8)

C9_WitnessUnknown ==
    /\ call.fn = "monthFromToken"
    /\ call.arg = <<"X", "Y", "Z">>
    /\ call.ret = undefined

(***************************************************************************)
(* Properties of the fare summary                                          *)
(***************************************************************************)
\* the currency code a text "<CCY> <amount>" of a FareSummary begins with
CurrencyOfText(o) == Some(SubSeq(Get(o), 1, 3))

\* C11: every FareSummary that extractFareFromHtml returns has at least one
\* of base, taxes and total set; its currency is the currency of total when
\* total was found, else that of taxes, else that of base; so whenever total
\* (and with it totalAmount) is present, a currency is present.
C11_FareHasFieldAndCurrencyByPrecedence ==
    (Parsed /\ meta.fare # undefined) =>
        /\ \E field \in {Get(meta.fare).base, Get(meta.fare).taxes, Get(meta.fare).total} :
              field # undefined
        /\ Get(meta.fare).currency =
              IF Get(meta.fare).total # undefined THEN CurrencyOfText(Get(meta.fare).total)
              ELSE IF Get(meta.fare).taxes # undefined THEN CurrencyOfText(Get(meta.fare).taxes)
              ELSE CurrencyOfText(Get(meta.fare).base)
        /\ (Get(meta.fare).total # undefined) = (Get(meta.fare).totalAmount # undefined)
        /\ Get(meta.fare).total # undefined =>
              /\ Get(meta.fare).currency # undefined
              /\ Len(Get(Get(meta.fare).currency)) = 3

\* a fare in USD with a total in EUR: the currency is that of the total
C11_Witness ==
    /\ pc = "done"
    /\ input.rows = <<<<<<"F", "a", "r", "e">>, <<"U", "S", "D", " ", "2", "0", "0", ".", "0", "0">>>>, <<<<"T", "o", "t", "a", "l">>, <<"E", "U", "R", " ", "1", "8", "0", ".", "0", "0">>>>>>
    /\ meta.fare # undefined
    /\ Get(meta.fare).base = Some(<<"U", "S", "D", " ", "2", "0", "0", ".", "0", "0">>)
    /\ Get(meta.fare).total = Some(<<"E", "U", "R", " ", "1", "8", "0", ".", "0", "0">>)
    /\ Get(meta.fare).totalAmount = Some(Fraction(180, 1))
    /\ Get(meta.fare).currency = Some(<<"E", "U", "R">>)

\* without a total the currency is that of the taxes
C11_WitnessNoTotal ==
    /\ pc = "done"
    /\ input.rows = <<<<<<"F", "a", "r", "e">>, <<"U", "S", "D", " ", "2", "0", "0", ".", "0", "0">>>>, <<<<"T", "a", "x", "e", "s">>, <<"E", "U", "R", " ", "1", "0", ".", "0", "0">>>>>>
    /\ meta.fare # undefined
    /\ Get(meta.fare).total = undefined
    /\ Get(meta.fare).totalAmount = undefined
    /\ Get(meta.fare).currency = Some(<<"E", "U", "R">>)

\* the label cells of Strategy A for one field: a cell whose label is one
\* of labels, followed by a cell whose text parses as money
PairedAt(tds, labels) ==
    {i \in 1..(Len(tds) - 1) :
        labelOf(tds[i]) \in labels /\ parseMoneyRaw(clean(tds[i + 1])) # undefined}

\* the cells of Strategy B for one field: the inline text parses
InlineAt(tds, labels) ==
    {i \in DOMAIN tds : InlineMoneyOfCell(tds[i], labels) # undefined}

LastOf(S) == CHOOSE i \in S : \A j \in S : i >= j

FirstOf(S) == CHOOSE i \in S : \A j \in S : i <= j

\* the text of one field as C17 has it: from the last pair of Strategy A;
\* without such a pair from the first cell of Strategy B; else none
FieldByStrategy(tds, labels, paired, inline) ==
    IF paired # {} THEN Some(MoneyText(Get(parseMoneyRaw(clean(tds[LastOf(paired) + 1])))))
    ELSE IF inline # {} THEN Some(MoneyText(Get(InlineMoneyOfCell(tds[FirstOf(inline)], labels))))
    ELSE undefined

FieldOf(tds, labels) ==
    FieldByStrategy(tds, labels, PairedAt(tds, labels), InlineAt(tds, labels))

\* the three fields of the fare that convert has stored
FieldsOfFare ==
    IF meta.fare = undefined THEN <<undefined, undefined, undefined>>
    ELSE <<Get(meta.fare).base, Get(meta.fare).taxes, Get(meta.fare).total>>

\* C17: each of base, taxes and total, on its own, is the money of the last
\* pair of a label cell and a money cell next to it (Strategy A) when there
\* is such a pair, whatever the inline texts say; only without such a pair
\* is it the money of the first cell, in document order, whose inline text
\* of label and money parses (Strategy B); without either it is unset.
C17_PairedCellsBeforeInlineText ==
    (pc = "done" /\ isHtml) =>
        FieldsOfFare = <<FieldOf(AllCells(input.rows), FareLabels),
                         FieldOf(AllCells(input.rows), TaxesLabels),
                         FieldOf(AllCells(input.rows), TotalLabels)>>

\* a pair "Total", "USD 300" and a cell "Total: EUR 5": the total is USD 300
C17_Witness ==
    /\ pc = "done"
    /\ AllCells(input.rows) = <<<<"T", "o", "t", "a", "l">>, <<"U", "S", "D", " ", "3", "0", "0">>, <<"T", "o", "t", "a", "l", ":", " ", "E", "U", "R", " ", "5">>>>
    /\ FieldsOfFare = <<undefined, undefined, Some(<<"U", "S", "D", " ", "3", "0", "0", ".", "0", "0">>)>>

\* the same with the inline cell first in the document
C17_WitnessInlineCellFirst ==
    /\ pc = "done"
    /\ AllCells(input.rows) = <<<<"T", "o", "t", "a", "l", ":", " ", "E", "U", "R", " ", "5">>, <<"T", "o", "t", "a", "l">>, <<"U", "S", "D", " ", "3", "0", "0">>>>
    /\ FieldsOfFare = <<undefined, undefined, Some(<<"U", "S", "D", " ", "3", "0", "0", ".", "0", "0">>)>>

\* two pairs for the total: the last one wins
C17_WitnessLastPair ==
    /\ pc = "done"
    /\ AllCells(input.rows) = <<<<"T", "o", "t", "a", "l">>, <<"U", "S", "D", " ", "1">>, <<"T", "o", "t", "a", "l">>, <<"U", "S", "D", " ", "2">>>>
    /\ FieldsOfFare = <<undefined, undefined, Some(<<"U", "S", "D", " ", "2", ".", "0", "0">>)>>

\* no pair: the first inline text that parses, "total eur 6", is taken
C17_WitnessFirstInline ==
    /\ pc = "done"
    /\ AllCells(input.rows) = <<<<"T", "o", "t", "a", "l", ":", " ", "E", "U", "R", " ", "1", ".", "2", ".", "3">>, <<"t", "o", "t", "a", "l", " ", "e", "u", "r", " ", "6">>, <<"T", "o", "t", "a", "l", " ", "-", " ", "E", "U", "R", " ", "7">>>>
    /\ FieldsOfFare = <<undefined, undefined, Some(<<"E", "U", "R", " ", "6", ".", "0", "0">>)>>

\* the fields are settled one by one: the taxes by a pair, the base by the
\* first inline text, in the cell that also has an inline text for the taxes
C17_WitnessPerField ==
    /\ pc = "done"
    /\ AllCells(input.rows) = <<<<"F", "a", "r", "e", ":", " ", "U", "S", "D", " ", "1", "0", " ", "T", "a", "x", "e", "s", ":", " ", "A", "R", "S", " ", "2">>, <<"F", "a", "r", "e", ":", " ", "U", "S", "D", " ", "1", "1">>, <<"T", "a", "x", "e", "s">>, <<"E", "U", "R", " ", "3">>>>
    /\ FieldsOfFare = <<Some(<<"U", "S", "D", " ", "1", "0", ".", "0", "0">>), Some(<<"E", "U", "R", " ", "3", ".", "0", "0">>), undefined>>

(***************************************************************************)
(* Properties of applyDatesAndTransit                                      *)
(***************************************************************************)
\* seg.depText resolves: parseDateTextLoose gives a date for it (in any year)
DepartureResolves(seg) == DateOfText(seg.depText, currentYear) # undefined

\* the gap between the arrival of segment i and the departure of the next
\* one is known and not negative
HasTransit(segs, i) ==
    /\ i < Len(segs)
    /\ segs[i].arrDate # undefined
    /\ segs[i + 1].depDate # undefined
    /\ Get(segs[i + 1].depDate) - Get(segs[i].arrDate) >= 0

\* C12: a pass of the first loop over a segment whose departure text does
\* not resolve leaves its depDate unset, the running year and lastMonth as
\* they were and every other segment as it was, and the loop goes on; when
\* the run is done every segment whose departure text resolves has a
\* depDate, and an unresolved departure has cost only the transitToNext of
\* the segment before it: the segment's own arrDate, transitToNext and price
\* are set as for any other segment.
C12_UnresolvedDepartureSkipsOnlyItsDate ==
    [][/\ (pc = "dates" /\ ~DepartureResolves(segments[cursor])) =>
            /\ segments' = [segments EXCEPT
                              ![cursor].depDate = undefined,
                              ![cursor].arrDate = DateOfText(segments[cursor].arrText, year)]
            /\ year' = year
            /\ lastMonth' = lastMonth
            /\ cursor' = cursor + 1
            /\ pc' = IF cursor < Len(segments) THEN "dates" ELSE "transit"
       /\ pc' = "done" =>
            \A i \in DOMAIN segments' :
                /\ DepartureResolves(segments'[i]) = (segments'[i].depDate # undefined)
                /\ (i > 1 /\ segments'[i].depDate = undefined) =>
                      segments'[i - 1].transitToNext = undefined
                /\ segments'[i].depDate = undefined =>
                      /\ (segments'[i].arrDate # undefined)
                            = (DateOfText(segments'[i].arrText, currentYear) # undefined)
                      /\ (segments'[i].transitToNext # undefined) = HasTransit(segments', i)
                      /\ (segments'[i].price # undefined) = PricingApplies(meta', segments')]_vars

\* a flight in January, then one whose month is not a month: the second has
\* no depDate, the first no transitToNext, year and lastMonth are those of the first
C12_Witness ==
    /\ pc = "done"
    /\ Len(segments) = 2
    /\ segments[1].depDate # undefined
    /\ segments[1].transitToNext = undefined
    /\ ~DepartureResolves(segments[2])
    /\ segments[2].depDate = undefined
    /\ year = currentYear
    /\ lastMonth = DepartureMonth(segments[1])

\* the unresolved departure comes first: the flight after it is resolved, and
\* the first flight still has its arrDate, its transitToNext and its price
C12_WitnessLaterResolved ==
    /\ pc = "done"
    /\ input.rows = UnresolvedThenPlainRows
    /\ segments[1].depDate = undefined
    /\ segments[1].arrDate = Some(MakeDate(currentYear, 0, 5, 10, 0))
    /\ segments[1].transitToNext = Some(<<"2", "h", " ", "3", "4", "m">>)
    /\ segments[1].price # undefined
    /\ segments[2].depDate = Some(MakeDate(currentYear, 0, 5, 12, 34))

\* a RAW time of three digits gives a text that is not of the pattern
C12_WitnessMalformed ==
    /\ pc = "done"
    /\ ~isHtml
    /\ Len(segments) = 2
    /\ Includes(segments[1].depText, <<"9", "3", ":", "0">>)
    /\ segments[1].depDate = undefined
    /\ segments[2].depDate # undefined

\* applyDatesAndTransit has returned
DatesAndTransitDone == pc \in {"pricing", "done"} /\ segments # <<>>

\* the minutes from the arrival of segment i to the departure of the next one
Gap(segs, i) == Get(segs[i + 1].depDate) - Get(segs[i].arrDate)

\* "<H>h <M>m"
DurationText(H, M) == NatToDigits(H) \o <<"h", " ">> \o NatToDigits(M) \o <<"m">>

\* C13: after applyDatesAndTransit, segment i has a transitToNext if and only
\* if it has a successor, its arrDate and the successor's depDate are both
\* resolved and the gap between them in minutes is >= 0; it is then
\* "<H>h <M>m" with 60 H + M the gap and 0 <= M <= 59; the last segment
\* never has one.
C13_TransitIffBothResolvedAndGapNotNegative ==
    DatesAndTransitDone =>
        /\ segments[Len(segments)].transitToNext = undefined
        /\ \A i \in 1..(Len(segments) - 1) :
              IF /\ segments[i].arrDate # undefined
                 /\ segments[i + 1].depDate # undefined
                 /\ Gap(segments, i) >= 0
              THEN \E M \in 0..59 :
                      /\ (Gap(segments, i) - M) % 60 = 0
                      /\ segments[i].transitToNext
                            = Some(DurationText((Gap(segments, i) - M) \div 60, M))
              ELSE segments[i].transitToNext = undefined

\* arrival 10:00, next departure 12:34 of the same day
C13_Witness ==
    /\ pc = "done"
    /\ Len(segments) = 2
    /\ segments[1].arrDate # undefined
    /\ segments[2].depDate # undefined
    /\ Gap(segments, 1) = 154
    /\ segments[1].transitToNext = Some(<<"2", "h", " ", "3", "4", "m">>)
    /\ segments[2].transitToNext = undefined

\* the next departure is at the minute of the arrival
C13_WitnessNoGap ==
    /\ pc = "done"
    /\ Len(segments) = 2
    /\ segments[1].arrDate # undefined
    /\ segments[1].arrDate = segments[2].depDate
    /\ segments[1].transitToNext = Some(<<"0", "h", " ", "0", "m">>)

\* the next departure is before the arrival
C13_WitnessNegativeGap ==
    /\ pc = "done"
    /\ Len(segments) = 2
    /\ segments[1].arrDate # undefined
    /\ segments[2].depDate # undefined
    /\ Gap(segments, 1) < 0
    /\ segments[1].transitToNext = undefined

\* the departure of seg, read in the year y, is in a month before lm
MonthBefore(seg, y, lm) ==
    /\ DateOfText(seg.depText, y) # undefined
    /\ GetMonth(Get(DateOfText(seg.depText, y))) < lm

\* what C14 says of the year and of the dates in one pass of the first loop
\* over segment i: the year goes up by one when the departure, resolved in
\* the running year, is in a month strictly before lastMonth, and stays
\* otherwise; the other segments keep their dates; the dates of segment i
\* are resolved in the year in force after that
YearAndDatesOfPass(i) ==
    /\ year' >= year
    /\ year' = IF MonthBefore(segments[i], year, lastMonth) THEN year + 1 ELSE year
    /\ Len(segments') = Len(segments)
    /\ \A j \in DOMAIN segments : j # i => segments'[j] = segments[j]
    /\ ResolvedInYear(segments'[i], year')

\* lastMonth after the pass is the month of the departure the segment ends with
MonthOfPass(i) ==
    lastMonth' = IF segments'[i].depDate # undefined
                 THEN DepartureMonth(segments'[i])
                 ELSE lastMonth

\* C14 as stated: lastMonth takes the resolved departure month on the branch
\* without roll-over only, and is left alone on the roll-over branch.
C14_Original ==
    [][pc = "dates" =>
          /\ YearAndDatesOfPass(cursor)
          /\ IF MonthBefore(segments[cursor], year, lastMonth)
             THEN lastMonth' = lastMonth
             ELSE MonthOfPass(cursor)]_vars

\* C14 (amended): over the passes of the first loop the running year never
\* decreases and goes up by exactly one at each segment whose departure,
\* resolved in the running year, is in a month strictly before lastMonth;
\* only that segment is resolved again, in the new year; every segment's
\* dates are resolved in the year in force when it is processed; and
\* lastMonth becomes the month of the segment's resolved departure on both
\* branches (on the roll-over branch that of the departure resolved in the
\* new year).  The second loop and the pricing leave the year alone.
C14_YearRollsOverAndMonthFollows ==
    [][/\ pc = "dates" => (YearAndDatesOfPass(cursor) /\ MonthOfPass(cursor))
       /\ pc \in {"transit", "pricing"} => (year' = year /\ lastMonth' = lastMonth)]_vars

\* December, then January: the year has gone up by one and lastMonth is January
C14_Witness ==
    /\ pc = "done"
    /\ Len(segments) = 2
    /\ segments[1].depDate = Some(MakeDate(currentYear, 11, 31, 23, 50))
    /\ segments[2].depDate = Some(MakeDate(currentYear + 1, 0, 5, 12, 34))
    /\ year = currentYear + 1
    /\ lastMonth = 0

\* both dates of the segment are resolved and the arrival is not before
\* the departure
ArrivalNotBeforeDeparture(seg) ==
    (seg.depDate # undefined /\ seg.arrDate # undefined) =>
        Get(seg.arrDate) >= Get(seg.depDate)

\* C18: after applyDatesAndTransit, on the RAW and on the markup path, every
\* segment whose depDate and arrDate are both resolved has arrDate >= depDate,
\* also when its departure and arrival texts name different days or months.
C18_ArrivalNotBeforeDeparture ==
    DatesAndTransitDone =>
        \A i \in DOMAIN segments : ArrivalNotBeforeDeparture(segments[i])

\* C18, for the segments whose arrival resolves less than 24 hours before
\* the departure (every RAW segment, whose two texts name the same day, is
\* one): these do end with arrDate >= depDate.
C18_ArrivalNotBeforeDepartureWithinADay ==
    DatesAndTransitDone =>
        \A i \in DOMAIN segments :
            (/\ segments[i].depDate # undefined
             /\ DateOfText(segments[i].arrText, GetFullYear(Get(segments[i].depDate))) # undefined
             /\ Get(segments[i].depDate)
                   - Get(DateOfText(segments[i].arrText, GetFullYear(Get(segments[i].depDate))))
                       <= MinutesPerDay)
            => ArrivalNotBeforeDeparture(segments[i])

C18_ArrivalNotBeforeDepartureOnRawPath ==
    (DatesAndTransitDone /\ ~isHtml) =>
        \A i \in DOMAIN segments : ArrivalNotBeforeDeparture(segments[i])

\* departure on 31 December at 22:00, arrival on 1 January at 06:00: the
\* arrival ends on 2 January of the year of the departure
C18_NewYearFlightArrivesBeforeItLeaves ==
    /\ pc = "done"
    /\ input.rows = NewYearFlightRows
    /\ segments[1].depDate = Some(MakeDate(currentYear, 11, 31, 22, 0))
    /\ segments[1].arrDate = Some(MakeDate(currentYear, 0, 2, 6, 0))

(***************************************************************************)
(* Properties of the RAW texts and of parseDateTextLoose                   *)
(***************************************************************************)
\* text is "<day> <month> <HH:MM>" with a month word that names a month
NamesRecognizedMonth(text) ==
    /\ Len(Words(text)) = 3
    /\ monthFromToken(Words(text)[2]) # undefined

\* text is "<day> <month> <time>" with a time cut from a token of n digits
TimeCutFrom(text, n) == Len(Words(text)) = 3 /\ Len(Words(text)[3]) = n + 1

\* C15: on the RAW path every segment, whose line had time tokens of 3 or of
\* 4 digits, has a depText and an arrText that parseDateTextLoose accepts,
\* so that its depDate and arrDate are resolved whenever its month token is
\* a recognized month.
C15_RawTextsResolve ==
    (pc = "done" /\ ~isHtml) =>
        \A i \in DOMAIN segments :
            NamesRecognizedMonth(segments[i].depText) =>
                /\ DateOfText(segments[i].depText, currentYear) # undefined
                /\ DateOfText(segments[i].arrText, currentYear) # undefined
                /\ segments[i].depDate # undefined
                /\ segments[i].arrDate # undefined

\* C15, for the lines whose two time tokens have 4 digits: these resolve.
C15_RawTextsOfFourDigitTimesResolve ==
    (pc = "done" /\ ~isHtml) =>
        \A i \in DOMAIN segments :
            (/\ NamesRecognizedMonth(segments[i].depText)
             /\ TimeCutFrom(segments[i].depText, 4)
             /\ TimeCutFrom(segments[i].arrText, 4)) =>
                /\ segments[i].depDate # undefined
                /\ segments[i].arrDate # undefined

\* a line with the departure time 930: the text is "31 DEC 93:0", the arrival
\* of 4 digits is resolved and the departure is not
C15_ThreeDigitTimeUnresolved ==
    /\ pc = "done"
    /\ ~isHtml
    /\ Len(segments) = 1
    /\ segments[1].depText = <<"3", "1", " ", "D", "E", "C", " ", "9", "3", ":", "0">>
    /\ segments[1].arrText = <<"3", "1", " ", "D", "E", "C", " ", "1", "0", ":", "4", "5">>
    /\ segments[1].depDate = undefined
    /\ segments[1].arrDate # undefined

\* \d{1,2}:\d{2}
IsClockText(time) ==
    /\ Len(time) \in {4, 5}
    /\ time[Len(time) - 2] = ":"
    /\ \A k \in DOMAIN time : k # Len(time) - 2 => IsDigit(time[k])

\* <<day, month word, time>> is of the pattern of parseDateTextLoose
PartsMatch(parts) ==
    /\ Len(parts[1]) \in 1..2
    /\ AllDigits(parts[1])
    /\ Len(parts[2]) >= 3
    /\ \A k \in DOMAIN parts[2] : IsMonthLetter(parts[2][k])
    /\ IsClockText(parts[3])

\* the first place of the text of a call where the pattern matches: the
\* parts the text begins with, else the later ones, else none
MatchedParts(arg) == IF PartsMatch(arg.parts) THEN arg.parts ELSE arg.later

DayOf(parts) == DigitsToNat(parts[1])

HourOf(parts) == DigitsToNat(SubSeq(parts[3], 1, Len(parts[3]) - 3))

MinuteOf(parts) == DigitsToNat(SubSeq(parts[3], Len(parts[3]) - 1, Len(parts[3])))

\* the date is in the year y, at the day, month, hour and minute of parts
IsDateOfParts(date, y, parts) ==
    /\ GetFullYear(date) = y
    /\ GetMonth(date) = Get(monthFromToken(parts[2]))
    /\ GetDate(date) = DayOf(parts)
    /\ GetMinuteOfDay(date) = 60 * HourOf(parts) + MinuteOf(parts)

\* the day of parts is a day of its month in the year y, the hour one of
\* 0..23 and the minute one of 0..59
InCalendar(y, parts) ==
    /\ DayOf(parts) \in 1..DaysInMonth(y, Get(monthFromToken(parts[2])))
    /\ HourOf(parts) <= 23
    /\ MinuteOf(parts) <= 59

\* parseDateTextLoose returns nothing exactly when the pattern does not
\* match or the month word of the match is not recognized
NothingIffNoMatchOrNoMonth ==
    (call.ret = undefined)
        = (\/ MatchedParts(call.arg) = <<>>
           \/ monthFromToken(MatchedParts(call.arg)[2]) = undefined)

\* C16 as stated: for every text that matches with a recognized month word
\* the date returned lies in baseYear at the matched day, month, hour and
\* minute; nothing is returned exactly when the pattern does not match or
\* the month word is not recognized.
C16_Original ==
    call.fn = "parseDateTextLoose" =>
        /\ NothingIffNoMatchOrNoMonth
        /\ call.ret # undefined =>
              IsDateOfParts(Get(call.ret), call.arg.baseYear, MatchedParts(call.arg))

\* C16 (amended): nothing is returned exactly when the pattern does not match
\* or the month word is not recognized; the date returned lies in baseYear at
\* the matched day, month, hour and minute whenever that day is a day of that
\* month in baseYear, the hour is at most 23 and the minute at most 59.
C16_DateOfMatchedPartsInCalendar ==
    call.fn = "parseDateTextLoose" =>
        /\ NothingIffNoMatchOrNoMonth
        /\ (call.ret # undefined /\ InCalendar(call.arg.baseYear, MatchedParts(call.arg))) =>
              IsDateOfParts(Get(call.ret), call.arg.baseYear, MatchedParts(call.arg))

\* "Sat 29 Feb 23:59" read in 2028
C16_Witness ==
    /\ call.fn = "parseDateTextLoose"
    /\ call.arg.text = <<"S", "a", "t", " ", "2", "9", " ", "F", "e", "b", " ", "2", "3", ":", "5", "9">>
    /\ call.arg.baseYear = 2028
    /\ call.ret # undefined
    /\ GetFullYear(Get(call.ret)) = 2028
    /\ GetMonth(Get(call.ret)) = 1
    /\ GetDate(Get(call.ret)) = 29
    /\ GetMinuteOfDay(Get(call.ret)) = 23 * 60 + 59

\* "29 Feb 12:34" read in 2027, a year without that day: 1 March 2027
C16_WitnessNoSuchDay ==
    /\ call.fn = "parseDateTextLoose"
    /\ call.arg.text = <<"2", "9", " ", "F", "e", "b", " ", "1", "2", ":", "3", "4">>
    /\ call.arg.baseYear = 2027
    /\ call.ret = Some(MakeDate(2027, 2, 1, 12, 34))
    /\ GetMonth(Get(call.ret)) = 2
    /\ GetDate(Get(call.ret)) = 1

\* "32 dic 9:30" read in 2027: 1 January 2028
C16_WitnessNextYear ==
    /\ call.fn = "parseDateTextLoose"
    /\ call.arg.text = <<"3", "2", " ", "d", "i", "c", " ", "9", ":", "3", "0">>
    /\ call.arg.baseYear = 2027
    /\ call.ret # undefined
    /\ GetFullYear(Get(call.ret)) = 2028
    /\ GetMonth(Get(call.ret)) = 0
    /\ GetDate(Get(call.ret)) = 1

\* the month word of the first match is not a month: nothing, whatever follows
C16_WitnessNothing ==
    /\ call.fn = "parseDateTextLoose"
    /\ call.arg.text = <<"5", " ", "X", "X", "X", " ", "1", "2", ":", "3", "4", " ", "5", " ", "M", "A", "R", " ", "1", "0", ":", "0", "0">>
    /\ call.ret = undefined

====
